---- MODULE Spec2Model ----
(***************************************************************************)
(* A model of the DF-ISE grid parser (src/dfise_parser.py, class           *)
(* DFISEParser): the primitive decoders, the connectivity reconstructor,   *)
(* the consistency validator and the parse pass with its diagnostics.      *)
(*                                                                         *)
(* A file is a sequence of lines.  A line is a record                      *)
(*     [t, s, n, toks]                                                     *)
(*   t = "info"    the line  Info {                                        *)
(*   t = "assign"  the line  s = <value>  of the Info block; toks holds    *)
(*                 the value                                               *)
(*   t = "hdr"     the line  s (n) {      s in Vertices, Edges, Faces,     *)
(*                 Elements, Locations                                     *)
(*   t = "data"    a data line; s is its form: "bare" is  payload ,        *)
(*                 "indexed" is  n (payload) ; toks is the payload         *)
(*   t = "locs"    a line of the Locations block, toks its characters      *)
(*   t = "region"  the line  Region ( "s" ) {                              *)
(*   t = "material" the line  material = s                                 *)
(*   t = "close"   the line  }                                             *)
(* A token is [k, v, w]: k = "int" is the decimal integer v, k = "word"    *)
(* is the word (or character) w, k = "junk" a token that is neither.       *)
(***************************************************************************)
EXTENDS Integers, Sequences, FiniteSets, TLC

VARIABLES
    file,                 \* the text of the file at self.filepath
    strict_mode,          \* DFISEParser.strict_mode
    info,                 \* DFISEParser.info (NoInfo = None)
    regions,              \* DFISEParser.regions
    locations_chars,      \* DFISEParser.locations_chars
    element_types,        \* DFISEParser.element_types
    face_types,           \* DFISEParser.face_types
    parse_warnings,       \* DFISEParser.parse_warnings
    parse_errors,         \* DFISEParser.parse_errors
    parse_status,         \* DFISEParser.parse_status
    pc,                   \* where the caller of the parser stands
    vertices,             \* export_to_nas: vertices
    edges,                \* export_to_nas: edges
    faces_as_edges,       \* export_to_nas: faces_as_edges
    elements_as_faces,    \* export_to_nas: elements_as_faces
    faces_as_vertices,    \* export_to_nas: faces_as_vertices
    elements_as_vertices, \* export_to_nas: elements_as_vertices
    region_elements,      \* export_to_nas: region_elements
    include_surfaces,     \* export_to_nas: include_surfaces
    mappings,             \* export_to_nas: element_to_region, material_to_mid,
                          \*                region_to_pid
    boundary_faces,       \* export_to_nas: boundary_faces
    eid_counter,          \* export_to_nas: eid_counter (0 before it is set)
    nas,                  \* the lines written to the file at output_path
    summary,              \* the counts printed under "Export complete"
    first,                \* what the first of two calls of export_to_nas built
    files,                \* the files on disk: file name -> what the file holds
    reader,               \* the DFISEReader of the ParaView plugin
    output,               \* the grid the last RequestData handed to the pipeline
    result                \* what the last call returned or raised

parserVars == <<strict_mode, info, regions, locations_chars, element_types,
                face_types, parse_warnings, parse_errors, parse_status>>
diagVars == <<parse_warnings, parse_errors, parse_status>>
geomVars == <<vertices, edges, faces_as_edges, elements_as_faces,
              faces_as_vertices, elements_as_vertices, region_elements>>
exportVars == <<include_surfaces, mappings, boundary_faces, eid_counter, nas,
                summary, first>>
readerVars == <<files, reader, output>>
vars == <<file, parserVars, pc, geomVars, exportVars, readerVars, result>>

-----------------------------------------------------------------------------
(* Tokens and lines *)

I(v) == [k |-> "int", v |-> v, w |-> ""]
Word(w) == [k |-> "word", v |-> 0, w |-> w]
Junk == [k |-> "junk", v |-> 0, w |-> ""]

Ln(t, s, n, toks) == [t |-> t, s |-> s, n |-> n, toks |-> toks]
Hdr(name, n) == Ln("hdr", name, n, <<>>)
Close == Ln("close", "", 0, <<>>)
InfoOpen == Ln("info", "", 0, <<>>)
\* key = tok ; key = [ "w1" "w2" ]
AssignVal(key, tok) == Ln("assign", key, 0, <<tok>>)
AssignList(key, words) == Ln("assign", key, 1, words)
Locs(chars) == Ln("locs", "", 0, chars)
\* a data line of the given form carrying the payload toks at position n
\* (the bare form does not show n)
DataLine(form, n, toks) == Ln("data", form, n, toks)
\* str.isdigit() of a token: decimal digits only, so no sign
IsDigit(tok) == tok.k = "int" /\ tok.v >= 0
\* int(token) succeeds
IsInt(tok) == tok.k = "int"

\* line_stripped.split(): the tokens separated by white space.  In the
\* indexed form  n (a b c)  the parentheses stick to the first and the last
\* token of the payload, which are then no numbers.
SplitLine(l) ==
    IF l.t # "data" THEN <<Junk>>
    ELSE IF l.s = "bare" THEN l.toks
    ELSE IF Len(l.toks) = 0 THEN <<I(l.n), Junk>>
    ELSE <<I(l.n)>> \o [i \in 1..Len(l.toks) |->
            IF i = 1 \/ i = Len(l.toks) THEN Junk ELSE l.toks[i]]

\* The parts the geometry decoders take from a line: what stands between the
\* parentheses if the line has both, the white-space separated tokens if not.
PayloadParts(l) ==
    IF l.t = "data" /\ l.s = "indexed" THEN l.toks ELSE SplitLine(l)

-----------------------------------------------------------------------------
(* The section scanner shared by the decoders: the lines after the first   *)
(* line matching the header up to the first closing brace after it.        *)

IsHdr(l, name) ==
    \/ l.t = "hdr" /\ l.s = name
    \/ l.t = "info" /\ name = "Info"

\* the least member of a non-empty set of integers
Least(S) == CHOOSE x \in S : \A y \in S : x <= y

\* the index of the first line matching the header, 0 if there is none
HdrAt(f, name) ==
    LET at == {i \in 1..Len(f) : IsHdr(f[i], name)}
    IN IF at = {} THEN 0 ELSE Least(at)

\* a scanner that takes every section for present
section_found_always(f, name) == TRUE

section_found(f, name) == \E i \in 1..Len(f) : IsHdr(f[i], name)

\* close: the index of the first closing brace after the header, Len(f) + 1
\* if there is none
block_lines(f, name) ==
    LET h == HdrAt(f, name)
        at == {i \in (h + 1)..Len(f) : f[i].t = "close"}
        close == IF at = {} THEN Len(f) + 1 ELSE Least(at)
    IN IF h = 0 THEN <<>>
       ELSE SelectSeq(SubSeq(f, h + 1, close - 1),
                      LAMBDA l : ~IsHdr(l, name))

-----------------------------------------------------------------------------
(* Diagnostics: _add_warning and _add_error on the triple                  *)
(* (parse_warnings, parse_errors, parse_status), here the record [w, e, s] *)

SUCCESS == "success"
WARNING == "warning"
ERROR == "error"

W(msg) == [sev |-> "warning", msg |-> msg]
E(msg) == [sev |-> "error", msg |-> msg]

\* an _add_warning that sets the status whatever it was
add_warning_always(d, msg) ==
    [w |-> Append(d.w, msg), e |-> d.e, s |-> WARNING]

add_warning(d, msg) ==
    [w |-> Append(d.w, msg), e |-> d.e,
     s |-> IF d.s = SUCCESS THEN WARNING ELSE d.s]

\* an _add_error that puts the message first
add_error_first(d, msg) ==
    [w |-> d.w, e |-> <<msg>> \o d.e, s |-> ERROR]

add_error(d, msg) ==
    [w |-> d.w, e |-> Append(d.e, msg), s |-> ERROR]

\* the diagnostics after the issues ev were recorded, in order
RECURSIVE record_issues(_, _)
record_issues(d, ev) ==
    IF ev = <<>> THEN d
    ELSE record_issues(IF Head(ev).sev = "warning"
                       THEN add_warning(d, Head(ev).msg)
                       ELSE add_error(d, Head(ev).msg), Tail(ev))

Diag == [w |-> parse_warnings, e |-> parse_errors, s |-> parse_status]

\* the parser's diagnostics become d
SetDiag(d) ==
    /\ parse_warnings' = d.w
    /\ parse_errors' = d.e
    /\ parse_status' = d.s

\* the same warning recorded n times
Warnings(n, msg) == [i \in 1..n |-> W(msg)]

-----------------------------------------------------------------------------
(* The geometry decoders.  Each yields [out, ev]: the list it returns and  *)
(* the issues it records.                                                  *)

\* parse_vertices: a line with at least 3 parts gives float(parts[0..2])
vertex_applies(l) == Len(PayloadParts(l)) >= 3
vertex_raises(l) ==
    vertex_applies(l) /\ \E i \in 1..3 : ~IsInt(PayloadParts(l)[i])
parse_vertices(f) ==
    LET vertex_decodes(l) == vertex_applies(l) /\ ~vertex_raises(l)
    IN
    LET lines == block_lines(f, "Vertices")
        good  == SelectSeq(lines, vertex_decodes)
    IN [out |-> [i \in 1..Len(good) |-> [j \in 1..3 |-> PayloadParts(good[i])[j].v]],
        ev  |-> Warnings(Len(SelectSeq(lines, vertex_raises)), "Error parsing vertex")
                \o IF section_found(f, "Vertices") THEN <<>>
                   ELSE <<E("No Vertices section found")>>]

\* parse_edges_full: a line with at least 2 parts gives int(parts[0..1])
edge_applies(l) == Len(PayloadParts(l)) >= 2
edge_raises(l) ==
    edge_applies(l) /\ \E i \in 1..2 : ~IsInt(PayloadParts(l)[i])
parse_edges_full(f) ==
    LET edge_decodes(l) == edge_applies(l) /\ ~edge_raises(l)
    IN
    LET lines == block_lines(f, "Edges")
        good  == SelectSeq(lines, edge_decodes)
    IN [out |-> [i \in 1..Len(good) |-> [j \in 1..2 |-> PayloadParts(good[i])[j].v]],
        ev  |-> Warnings(Len(SelectSeq(lines, edge_raises)), "Error parsing edge")
                \o IF section_found(f, "Edges") THEN <<>>
                   ELSE <<E("No Edges section found")>>]

\* parse_faces_full: a line with at least 4 parts whose first is '3' gives
\* int(parts[1..3]); any other line is passed over
TriangleTag == 3
face_applies(l) ==
    Len(PayloadParts(l)) >= 4 /\ PayloadParts(l)[1] = I(TriangleTag)
face_raises(l) ==
    face_applies(l) /\ \E i \in 2..4 : ~IsInt(PayloadParts(l)[i])
parse_faces_full(f) ==
    LET face_decodes(l) == face_applies(l) /\ ~face_raises(l)
    IN
    LET lines == block_lines(f, "Faces")
        good  == SelectSeq(lines, face_decodes)
    IN [out |-> [i \in 1..Len(good) |-> [j \in 1..3 |-> PayloadParts(good[i])[j + 1].v]],
        ev  |-> Warnings(Len(SelectSeq(lines, face_raises)), "Error parsing face")
                \o IF section_found(f, "Faces") THEN <<>>
                   ELSE <<E("No Faces section found")>>]

\* parse_elements_full: a line with at least 5 parts whose first is '5'
\* gives int(parts[1..4])
TetraTag == 5
element_applies(l) ==
    Len(PayloadParts(l)) >= 5 /\ PayloadParts(l)[1] = I(TetraTag)
element_raises(l) ==
    element_applies(l) /\ \E i \in 2..5 : ~IsInt(PayloadParts(l)[i])
parse_elements_full(f) ==
    LET element_decodes(l) == element_applies(l) /\ ~element_raises(l)
    IN
    LET lines == block_lines(f, "Elements")
        good  == SelectSeq(lines, element_decodes)
    IN [out |-> [i \in 1..Len(good) |-> [j \in 1..4 |-> PayloadParts(good[i])[j + 1].v]],
        ev  |-> Warnings(Len(SelectSeq(lines, element_raises)), "Error parsing element")
                \o IF section_found(f, "Elements") THEN <<>>
                   ELSE <<E("No Elements section found")>>]

-----------------------------------------------------------------------------
(* The type-tag counters of the parse pass: parse_faces, parse_elements.   *)
(* They take parts = line.split() and count int(parts[0]) when it is all   *)
(* digits.  A count table is a function from the tags seen to their count. *)

count_tags(lines) ==
    LET tagged == SelectSeq(lines, LAMBDA l : Len(SplitLine(l)) > 0
                                              /\ IsDigit(SplitLine(l)[1]))
        tags   == {SplitLine(tagged[i])[1].v : i \in 1..Len(tagged)}
    IN [t \in tags |->
          Cardinality({i \in 1..Len(tagged) : SplitLine(tagged[i])[1].v = t})]

parse_faces(f) == count_tags(block_lines(f, "Faces"))
parse_elements(f) == count_tags(block_lines(f, "Elements"))

-----------------------------------------------------------------------------
(* The connectivity reconstructor *)

\* a faulty resolution, which takes a negative reference -(k+1) for -k
actual_idx_off_by_one(ref) == IF ref < 0 THEN 0 - ref ELSE ref

\* a signed reference resolved to the index it denotes (0-based)
actual_idx(ref) == IF ref < 0 THEN -ref - 1 ELSE ref

\* table[actual_idx] raises IndexError
ref_raises(ref, table) == actual_idx(ref) >= Len(table)

\* a faulty resolution, which takes a reversed edge as it is stored
edge_verts_unswapped(ref, edgs) == edgs[actual_idx(ref) + 1]

\* the vertex pair a signed edge reference denotes: swapped when negative
edge_verts(ref, edgs) ==
    LET e == edgs[actual_idx(ref) + 1]
    IN IF ref < 0 THEN <<e[2], e[1]>> ELSE e

\* a faulty extraction, which keeps the repeated values
unique_verts_repeated(vs, seen) == seen \o vs

\* the values of a list in first-seen order, each once
RECURSIVE unique_verts(_, _)
unique_verts(vs, seen) ==
    IF vs = <<>> THEN seen
    ELSE unique_verts(Tail(vs),
            IF \E i \in 1..Len(seen) : seen[i] = Head(vs) THEN seen
            ELSE Append(seen, Head(vs)))

FirstN(s, n) == SubSeq(s, 1, IF Len(s) < n THEN Len(s) ELSE n)

face_reconstruct_raises(face_edges, edgs) ==
    \E i \in 1..3 : ref_raises(face_edges[i], edgs)

reconstruct_face_vertices(face_edges, edgs) ==
    LET vs == edge_verts(face_edges[1], edgs) \o edge_verts(face_edges[2], edgs)
              \o edge_verts(face_edges[3], edgs)
    IN FirstN(unique_verts(vs, <<>>), 3)

\* a faulty ordering: the members of a set of integers in descending order
RECURSIVE sorted_descending(_)
sorted_descending(S) ==
    IF S = {} THEN <<>>
    ELSE LET m == CHOOSE x \in S : \A y \in S : x >= y
         IN <<m>> \o sorted_descending(S \ {m})

\* the members of a set of integers in ascending order
RECURSIVE sorted(_)
sorted(S) ==
    IF S = {} THEN <<>>
    ELSE LET m == CHOOSE x \in S : \A y \in S : x <= y
         IN <<m>> \o sorted(S \ {m})

RECURSIVE pad_zero(_, _)
pad_zero(s, n) == IF Len(s) >= n THEN s ELSE pad_zero(Append(s, 0), n)

element_reconstruct_raises(element_faces, fav) ==
    \E i \in 1..4 : ref_raises(element_faces[i], fav)

\* list(vertices) of a set of small non-negative integers: CPython walks the
\* hash table, in which an integer below the table size sits in the slot of
\* its own value, so the walk is ascending: list(vertices) is sorted(vs).
reconstruct_element_vertices(element_faces, fav) ==
    LET vs == UNION {{fav[actual_idx(element_faces[i]) + 1][j] :
                        j \in 1..Len(fav[actual_idx(element_faces[i]) + 1])} :
                     i \in 1..4}
    IN IF Cardinality(vs) # 4
       THEN FirstN(pad_zero(sorted(vs), 4), 4)
       ELSE sorted(vs)

-----------------------------------------------------------------------------
(* parse_info_block.  info_dict is a function from the keys read to their  *)
(* values, a value being a sequence of tokens: one token for a scalar, the *)
(* words of the list for regions and materials.  self.info is <<>> for     *)
(* None and <<info_dict>> for an InfoBlock.                                *)

NoInfo == <<>>
\* the file does not exist (an empty file is the empty sequence of lines)
Missing == <<Ln("nofile", "", 0, <<>>)>>

required_fields == <<"version", "type", "dimension", "nb_vertices", "nb_edges",
                     "nb_faces", "nb_elements", "nb_regions">>
InfoBlockFields == {required_fields[i] : i \in 1..Len(required_fields)}
                   \cup {"regions", "materials"}

defaults ==
    [version |-> <<Word("1.0")>>, type |-> <<Word("grid")>>,
     dimension |-> <<I(3)>>, nb_vertices |-> <<I(0)>>, nb_edges |-> <<I(0)>>,
     nb_faces |-> <<I(0)>>, nb_elements |-> <<I(0)>>, nb_regions |-> <<I(0)>>,
     regions |-> <<>>, materials |-> <<>>]

Put(d, k, v) == [x \in DOMAIN d \cup {k} |-> IF x = k THEN v ELSE d[x]]

\* _is_file_accessible: the issues it records; none when it returns True
file_access_issues(f) ==
    IF f = Missing THEN <<E("File does not exist")>>
    ELSE IF f = <<>> THEN <<E("File is empty")>>
    ELSE <<>>

RECURSIVE info_scan(_, _, _)
info_scan(lines, acc, strict) ==
    LET \* the loop over the lines of the Info block: [d, ev] after the line l
        info_line(l) ==
            IF l.t # "assign" THEN acc
            ELSE IF l.s \in {"regions", "materials"}
            THEN IF l.n = 1
                 THEN [d  |-> Put(acc.d, l.s, l.toks),
                       ev |-> acc.ev \o IF l.toks = <<>> THEN <<W("Empty list")>> ELSE <<>>]
                 ELSE [d  |-> IF strict THEN acc.d ELSE Put(acc.d, l.s, <<>>),
                       ev |-> Append(acc.ev, E("Invalid list format"))]
            ELSE \* _validate_numeric_value warns on a negative integer
                 [d  |-> Put(acc.d, l.s, l.toks),
                  ev |-> acc.ev \o IF IsInt(l.toks[1]) /\ l.toks[1].v < 0
                                   THEN <<W("negative value")>> ELSE <<>>]
    IN
    IF lines = <<>> THEN acc
    ELSE info_scan(Tail(lines), info_line(Head(lines)), strict)

\* parse_info_block: [info, ev, raised]; info is what self.info becomes
\* (unchanged, cur, when the call raises before the assignment)
parse_info_block(f, strict, cur) ==
    LET \* the defaults substituted for the missing fields
        with_defaults(d) ==
            [k \in DOMAIN d \cup {required_fields[i] : i \in 1..Len(required_fields)} |->
                IF k \in DOMAIN d THEN d[k] ELSE defaults[k]]
    IN
    LET missing_fields(d) ==
            SelectSeq(required_fields, LAMBDA k : k \notin DOMAIN d)
    IN
    IF file_access_issues(f) # <<>>
    THEN [info |-> cur, ev |-> file_access_issues(f), raised |-> "CorruptedFileError"]
    ELSE
    LET scan == info_scan(block_lines(f, "Info"), [d |-> <<>>, ev |-> <<>>], strict)
        miss == missing_fields(scan.d)
    IN IF ~section_found(f, "Info")
       THEN [info |-> cur, ev |-> scan.ev, raised |-> "MissingRequiredSectionError"]
       ELSE IF miss # <<>> /\ strict
       THEN [info |-> cur, ev |-> scan.ev, raised |-> "MissingRequiredSectionError"]
       ELSE
       LET d   == IF miss # <<>> THEN with_defaults(scan.d) ELSE scan.d
           ev1 == scan.ev \o IF miss # <<>>
                             THEN <<W("Missing Info fields (using defaults)")>>
                             ELSE <<>>
           ev2 == ev1 \o IF "nb_vertices" \in DOMAIN d /\ d["nb_vertices"][1].v < 0
                         THEN <<E("Negative vertex count")>> ELSE <<>>
           ev3 == ev2 \o IF "dimension" \in DOMAIN d
                            /\ d["dimension"][1] \notin {I(2), I(3)}
                         THEN <<W("Unusual dimension")>> ELSE <<>>
       IN IF DOMAIN d = InfoBlockFields
          THEN [info |-> <<d>>, ev |-> ev3, raised |-> ""]
          ELSE [info |-> cur,
                ev |-> Append(ev3, E("Failed to create InfoBlock")),
                raised |-> "CorruptedFileError"]

\* a count of the Info block as an integer
nb(inf, key) == inf[1][key][1].v

-----------------------------------------------------------------------------
(* parse_locations: the count of every character of the Locations block    *)

valid_chars == {"i", "f", "e"}

RECURSIVE concat_toks(_)
concat_toks(lines) ==
    IF lines = <<>> THEN <<>> ELSE Head(lines).toks \o concat_toks(Tail(lines))

RECURSIVE sum_counts(_)
sum_counts(table) ==
    IF DOMAIN table = {} THEN 0
    ELSE LET k == CHOOSE x \in DOMAIN table : TRUE
         IN table[k] + sum_counts([x \in DOMAIN table \ {k} |-> table[x]])

parse_locations(f, inf) ==
    LET count_chars(chars) ==
            [c \in {chars[i].w : i \in 1..Len(chars)} |->
                Cardinality({i \in 1..Len(chars) : chars[i].w = c})]
    IN
    LET chars == concat_toks(block_lines(f, "Locations"))
        bad   == SelectSeq(chars, LAMBDA c : c.w \notin valid_chars)
        out   == count_chars(chars)
    IN [out |-> out,
        ev  |-> (IF section_found(f, "Locations") /\ f[HdrAt(f, "Locations")].n = 0
                 THEN <<W("Invalid locations count")>> ELSE <<>>)
                \o [i \in 1..Len(bad) |-> W("Unexpected location character")]
                \o (IF section_found(f, "Locations") THEN <<>>
                    ELSE <<W("No Locations section found")>>)
                \o (IF inf # NoInfo /\ inf[1]["nb_faces"] # <<I(Len(chars))>>
                    THEN <<E("Locations count mismatch")>> ELSE <<>>)]

\* parse_locations_full: the characters i, f, e of the block, in order
parse_locations_full(f) ==
    LET chars == SelectSeq(concat_toks(block_lines(f, "Locations")),
                           LAMBDA c : c.w \in valid_chars)
    IN [out |-> [i \in 1..Len(chars) |-> chars[i].w],
        ev  |-> IF section_found(f, "Locations") THEN <<>>
                ELSE <<E("No Locations section found")>>]

-----------------------------------------------------------------------------
(* parse_regions.  self.regions is a dict, here the sequence of its        *)
(* RegionInfo values in insertion order; a fraction a / b is <<a, b>>.     *)

\* Outside a region no line but a Region header changes the state of the two
\* region scans, so they start at the first Region header.
FromFirstRegion(f) ==
    LET at == {i \in 1..Len(f) : f[i].t = "region"}
    IN IF at = {} THEN <<>> ELSE SubSeq(f, Least(at), Len(f))

NoRegion == [name |-> "", material |-> "", element_count |-> 0, open |-> FALSE]

\* a closing brace in a region ends it, with or without a material
region_ends_any(st, l) ==
    st.in_region /\ l.t = "close" /\ st.cur.open

\* in a region, a closing brace, and the current region has a material
region_ends(st, l) ==
    st.in_region /\ l.t = "close" /\ st.cur.open /\ st.cur.material # ""

RECURSIVE regions_scan(_, _, _)
regions_scan(lines, st, inf) ==
    LET \* the state [in_region, cur, regions, raised] after the line l
        regions_line(l) ==
            LET \* regions[name] = r
                dict_put(rs, r) ==
                    IF \E i \in 1..Len(rs) : rs[i].name = r.name
                    THEN [i \in 1..Len(rs) |-> IF rs[i].name = r.name THEN r ELSE rs[i]]
                    ELSE Append(rs, r)
            IN
            IF st.raised THEN st
            ELSE IF l.t = "region"
            THEN [st EXCEPT !.in_region = TRUE,
                            !.cur = [name |-> l.s, material |-> "",
                                     element_count |-> 0, open |-> TRUE]]
            ELSE IF st.in_region /\ l.t = "material"
            THEN [st EXCEPT !.cur.material = l.s]
            ELSE IF st.in_region /\ l.t = "hdr" /\ l.s = "Elements"
            THEN IF l.n >= 0 THEN [st EXCEPT !.cur.element_count = l.n] ELSE st
            ELSE IF region_ends(st, l)
            THEN IF inf = NoInfo \/ ~IsInt(inf[1]["nb_elements"][1])
                    \/ nb(inf, "nb_elements") = 0
                 THEN [st EXCEPT !.raised = TRUE]
                 ELSE [st EXCEPT !.regions = dict_put(st.regions,
                                      [name |-> st.cur.name, material |-> st.cur.material,
                                       element_count |-> st.cur.element_count,
                                       fraction |-> <<st.cur.element_count,
                                                      nb(inf, "nb_elements")>>]),
                                 !.cur = NoRegion, !.in_region = FALSE]
            ELSE st
    IN
    IF lines = <<>> THEN st
    ELSE regions_scan(Tail(lines), regions_line(Head(lines)), inf)

\* parse_regions: [out, raised]; raised when the fraction cannot be computed
parse_regions(f, inf) ==
    LET st == regions_scan(FromFirstRegion(f), [in_region |-> FALSE, cur |-> NoRegion,
                               regions |-> <<>>, raised |-> FALSE], inf)
    IN [out |-> st.regions, raised |-> st.raised]

-----------------------------------------------------------------------------
(* parse_region_elements: region name -> list of element indices, here the *)
(* sequence of [name, elems] in insertion order                            *)

list_put(res, name, elems) ==
    IF \E i \in 1..Len(res) : res[i].name = name
    THEN [i \in 1..Len(res) |->
            IF res[i].name = name THEN [name |-> name, elems |-> elems] ELSE res[i]]
    ELSE Append(res, [name |-> name, elems |-> elems])

RECURSIVE region_elements_scan(_, _)
region_elements_scan(lines, st) ==
    LET region_elements_line(l) ==
            LET digits_of(ln) ==
                    LET ds == SelectSeq(SplitLine(ln), IsDigit)
                    IN [i \in 1..Len(ds) |-> ds[i].v]
            IN
            LET list_get(res, name) ==
                    LET i == CHOOSE j \in 1..Len(res) : res[j].name = name IN res[i].elems
            IN
            IF l.t = "region"
            THEN [st EXCEPT !.in_region = TRUE, !.name = l.s, !.in_elems = FALSE]
            ELSE IF st.in_region /\ l.t = "hdr" /\ l.s = "Elements"
            THEN [st EXCEPT !.in_elems = TRUE, !.res = list_put(st.res, st.name, <<>>)]
            ELSE LET st1 == IF st.in_elems /\ l.t = "data"
                            THEN [st EXCEPT !.res = list_put(st.res, st.name,
                                        list_get(st.res, st.name) \o digits_of(l))]
                            ELSE st
                     st2 == IF st1.in_elems /\ l.t = "close"
                            THEN [st1 EXCEPT !.in_elems = FALSE] ELSE st1
                 IN IF st2.in_region /\ ~st2.in_elems /\ l.t = "close"
                    THEN [st2 EXCEPT !.in_region = FALSE, !.name = ""]
                    ELSE st2
    IN
    IF lines = <<>> THEN st
    ELSE region_elements_scan(Tail(lines), region_elements_line(Head(lines)))

parse_region_elements(f) ==
    region_elements_scan(FromFirstRegion(f), [in_region |-> FALSE, name |-> "", in_elems |-> FALSE,
                             res |-> <<>>]).res

-----------------------------------------------------------------------------
(* compute_statistics and validate_consistency *)

\* one of the ratios 2*E/V, F/V, 4*C/V, F/E, C/F divides by zero
statistics_raises(inf) ==
    nb(inf, "nb_vertices") = 0 \/ nb(inf, "nb_edges") = 0 \/ nb(inf, "nb_faces") = 0

table_get(table, k) == IF k \in DOMAIN table THEN table[k] ELSE 0

euler_characteristic(V, Ed, F, C) == V - Ed + F - C

compute_statistics(inf, locs) ==
    LET V  == nb(inf, "nb_vertices")
        Ed == nb(inf, "nb_edges")
        F  == nb(inf, "nb_faces")
        C  == nb(inf, "nb_elements")
    IN [euler_characteristic |-> euler_characteristic(V, Ed, F, C),
        edges_per_vertex     |-> <<2 * Ed, V>>,
        faces_per_vertex     |-> <<F, V>>,
        elements_per_vertex  |-> <<4 * C, V>>,
        faces_per_edge       |-> <<F, Ed>>,
        elements_per_face    |-> <<C, F>>,
        boundary_edges       |-> 3 * F - 2 * Ed,
        interior_faces       |-> table_get(locs, "i"),
        interface_faces      |-> table_get(locs, "f"),
        exterior_faces       |-> table_get(locs, "e")]

RECURSIVE sum_element_count(_)
sum_element_count(rs) ==
    IF rs = <<>> THEN 0 ELSE Head(rs).element_count + sum_element_count(Tail(rs))

regions_sum_correct(inf, rs) ==
    inf[1]["nb_elements"] = <<I(sum_element_count(rs))>>

\* len(types) == 1 and tag in types and types[tag] == declared
all_of_type(types, tag, declared) ==
    DOMAIN types = {tag} /\ declared = <<I(types[tag])>>

validate_consistency(inf, rs, etypes, ftypes, locs) ==
    [regions_sum_correct     |-> regions_sum_correct(inf, rs),
     all_elements_type_5     |-> all_of_type(etypes, TetraTag, inf[1]["nb_elements"]),
     all_faces_type_3        |-> all_of_type(ftypes, TriangleTag, inf[1]["nb_faces"]),
     locations_count_correct |-> inf[1]["nb_faces"] = <<I(sum_counts(locs))>>,
     regions_count_correct   |-> inf[1]["nb_regions"] = <<I(Len(rs))>>]

-----------------------------------------------------------------------------
(* The files of the model.  The base mesh is two tetrahedra, on the        *)
(* vertices 0 1 2 3 and 1 2 3 4, that share the face 1 2 3: 5 vertices,    *)
(* 9 edges, 7 faces, 2 elements, one region per element.  Every family of  *)
(* files below is the base mesh with one part of it drawn freely.          *)

BaseVertices == <<<<0, 0, 0>>, <<1, 0, 0>>, <<0, 1, 0>>, <<0, 0, 1>>, <<1, 1, 1>>>>
BaseEdges == <<<<0, 1>>, <<0, 2>>, <<0, 3>>, <<1, 2>>, <<1, 3>>, <<2, 3>>,
               <<1, 4>>, <<2, 4>>, <<3, 4>>>>
\* each face a closed cycle of signed edge references
BaseFaces == <<<<0, 3, -2>>, <<0, 4, -3>>, <<1, 5, -3>>, <<3, 5, -5>>,
               <<3, 7, -7>>, <<4, 8, -7>>, <<5, 8, -8>>>>
BaseElements == <<<<0, 1, 2, 3>>, <<-4, 4, 5, 6>>>>
BaseLocations == <<"e", "e", "e", "f", "e", "e", "e">>
\* the names the regions of the model files bear, as sorted() orders them
RegionNames == <<"R1", "R2", "R3">>

\* after: the material line stands after the Elements list of the block
BaseRegions ==
    <<[name |-> "R1", material |-> "Silicon", count |-> 1, elems |-> <<0>>,
       after |-> FALSE],
      [name |-> "R2", material |-> "Oxide", count |-> 1, elems |-> <<1>>,
       after |-> FALSE]>>

Ints(t) == [i \in 1..Len(t) |-> I(t[i])]
Words(t) == [i \in 1..Len(t) |-> Word(t[i])]

\* the data lines of a block: row i is written at position i - 1
Rows(form, tag, rows) ==
    [i \in 1..Len(rows) |-> DataLine(form, i - 1, tag \o Ints(rows[i]))]

\* more data lines, written after the n lines of the base mesh: the payload
\* of line i is the integers more[i].toks, those at the positions more[i].junk
\* replaced by a token that is no number
MoreRows(form, n, more) ==
    [i \in 1..Len(more) |->
        DataLine(form, n + i - 1,
                 [j \in 1..Len(more[i].toks) |->
                    IF j \in more[i].junk THEN Junk ELSE I(more[i].toks[j])])]

Block(name, n, lines) == <<Hdr(name, n)>> \o lines \o <<Close>>

RECURSIVE RegionBlocks(_)
RegionBlocks(rs) ==
    LET Material(m) == Ln("material", m, 0, <<>>)
    IN
    LET RegionHdr(name) == Ln("region", name, 0, <<>>)
    IN
    LET RegionBlock(r) ==
            LET Bare(toks) == DataLine("bare", 0, toks)
            IN
            LET material == IF r.material = "" THEN <<>> ELSE <<Material(r.material)>>
            IN <<RegionHdr(r.name)>>
               \o (IF r.after THEN <<>> ELSE material)
               \o <<Hdr("Elements", r.count), Bare(Ints(r.elems)), Close>>
               \o (IF r.after THEN material ELSE <<>>)
               \o <<Close>>
    IN
    IF rs = <<>> THEN <<>> ELSE RegionBlock(Head(rs)) \o RegionBlocks(Tail(rs))

Forms == {"bare", "indexed"}

(***************************************************************************)
(* The variable file holds the file as the parts of it that were drawn:    *)
(*   form     the form of its data lines                                   *)
(*   nbs      the counts <<V, E, F, C, R>> its Info block declares         *)
(*   dim      the dimension its Info block declares                        *)
(*   absent   the keys its Info block does not have                        *)
(*   faces    face lines after those of the base mesh, each [toks, junk]   *)
(*   elements element lines after those of the base mesh                   *)
(*   locs     the characters of its Locations block                        *)
(*   regions  its Region blocks, each [name, material, count, elems]       *)
(*   omit     the blocks it does not have                                   *)
(*   tail     what stands after the last Region block                       *)
(* and Text(file) is its text.                                             *)
(***************************************************************************)
Text(d) ==
    LET \* the lines of an Info block that declares the counts nbs and the dimension
        \* dim, without the lines of the keys in absent
        InfoLines(nbs, dim, absent) ==
            SelectSeq(
              <<AssignVal("version", Word("1.0")), AssignVal("type", Word("grid")),
                AssignVal("dimension", I(dim)), AssignVal("nb_vertices", I(nbs[1])),
                AssignVal("nb_edges", I(nbs[2])), AssignVal("nb_faces", I(nbs[3])),
                AssignVal("nb_elements", I(nbs[4])), AssignVal("nb_regions", I(nbs[5])),
                AssignList("regions", Words(<<"R1", "R2">>)),
                AssignList("materials", Words(<<"Silicon", "Oxide">>))>>,
              LAMBDA l : l.s \notin absent)
    IN
    LET Unless(name, lines) == IF name \in d.omit THEN <<>> ELSE lines
    IN Unless("Info", <<InfoOpen>> \o InfoLines(d.nbs, d.dim, d.absent) \o <<Close>>)
       \o Unless("Vertices",
            Block("Vertices", Len(BaseVertices), Rows(d.form, <<>>, BaseVertices)))
       \o Unless("Edges", Block("Edges", Len(BaseEdges), Rows(d.form, <<>>, BaseEdges)))
       \o Unless("Faces",
            Block("Faces", Len(BaseFaces) + Len(d.faces),
                  Rows(d.form, <<I(TriangleTag)>>, BaseFaces)
                  \o MoreRows(d.form, Len(BaseFaces), d.faces)))
       \o Unless("Locations", Block("Locations", Len(d.locs), <<Locs(Words(d.locs))>>))
       \o Unless("Elements",
            Block("Elements", Len(BaseElements) + Len(d.elements),
                  Rows(d.form, <<I(TetraTag)>>, BaseElements)
                  \o MoreRows(d.form, Len(BaseElements), d.elements)))
       \o RegionBlocks(d.regions)
       \o (CASE d.tail = "" -> <<>>
             [] d.tail = "Close" -> <<Close>>
             [] d.tail = "Locations" ->
                  Block("Locations", Len(d.locs), <<Locs(Words(d.locs))>>)
             [] d.tail = "Elements" ->
                  Block("Elements", Len(BaseElements),
                        Rows(d.form, <<I(TetraTag)>>, BaseElements)))

\* the base mesh with more face lines and more element lines; its Info block
\* declares what the file holds
MeshFile(form, moreFaces, moreElements) ==
    [form |-> form,
     nbs |-> <<Len(BaseVertices), Len(BaseEdges), Len(BaseFaces) + Len(moreFaces),
               Len(BaseElements) + Len(moreElements), Len(BaseRegions)>>,
     dim |-> 3,
     absent |-> {},
     omit |-> {},
     tail |-> "",
     faces |-> moreFaces,
     elements |-> moreElements,
     locs |-> BaseLocations \o [i \in 1..Len(moreFaces) |-> "e"],
     regions |-> BaseRegions]

BaseFile == MeshFile("bare", <<>>, <<>>)

Line(toks) == [toks |-> toks, junk |-> {}]

\* how far beyond either end of a table a signed reference may point
RefSlack == 1
Refs(n) == (0 - n - RefSlack)..(n - 1 + RefSlack)

\* the base mesh and, after its faces, one more face line with three
\* references drawn freely
FaceFile(a, b, c) ==
    MeshFile("bare", <<Line(<<TriangleTag, a, b, c>>)>>, <<>>)

\* the base mesh and, after its elements, one more element line with four
\* references drawn freely
ElementFile(a, b, c, d) ==
    MeshFile("bare", <<>>, <<Line(<<TetraTag, a, b, c, d>>)>>)

\* the base mesh and, after its faces, one more face line of either form that
\* carries the tag and two references only; the Info block counts the line
ShortFaceFile(form, a, b) ==
    MeshFile(form, <<Line(<<TriangleTag, a, b>>)>>, <<>>)

\* The files of the parse pass: the base mesh with one part of it changed.

\* the Info block lacks the keys in absent
InfoFile(absent) == [BaseFile EXCEPT !.absent = absent]

\* the Info block declares the counts V, Ed, F, C, whatever the file holds
MaxCount == 1
Counts(actual) == (0 - 1)..MaxCount \cup {actual}

\* the Info block declares the dimension dim
MaxDimension == 4

\* the p-th character of the Locations block is c
LocationChars == {"i", "f", "e", "x"}
LocationsFile(p, c) == [BaseFile EXCEPT !.locs[p] = c]
\* the Locations block has only the codes of the first n faces
ShortLocationsFile(n) == [BaseFile EXCEPT !.locs = SubSeq(BaseLocations, 1, n)]

\* one more data line: a tag, then all or all but one of the references of a
\* line of the base mesh, then possibly a token that is no number
DataLines(refs) ==
    {[toks |-> <<tag>> \o SubSeq(refs, 1, n), junk |-> IF j THEN {n + 1} ELSE {}] :
        tag \in {TriangleTag, TetraTag},
        n \in {Len(refs) - 1, Len(refs)},
        j \in BOOLEAN}

\* the two regions list the elements l1 and l2, each header declaring the
\* length of its own list; the second region has the material m2 ("" = none)
MaxListLen == 2
IndexLists ==
    UNION {[1..k -> 0..(Len(BaseElements) - 1)] : k \in 0..MaxListLen}
RegionsFile(l1, l2, m2) ==
    [BaseFile EXCEPT !.regions =
        <<[name |-> "R1", material |-> "Silicon", count |-> Len(l1), elems |-> l1,
           after |-> FALSE],
          [name |-> "R2", material |-> m2, count |-> Len(l2), elems |-> l2,
           after |-> FALSE]>>]

\* three Region blocks, block i with the material ms[i] ("" for none) written
\* before or after its Elements list, and what stands after the last block:
\* nothing, the brace that closes the enclosing block, or another block
RegionOrderFile(ms, afters, tail) ==
    [BaseFile EXCEPT
        !.regions = [i \in 1..Len(RegionNames) |->
                       [name |-> RegionNames[i], material |-> ms[i],
                        count |-> IF i <= Len(BaseElements) THEN 1 ELSE 0,
                        elems |-> IF i <= Len(BaseElements) THEN <<i - 1>> ELSE <<>>,
                        after |-> afters[i]]],
        !.tail = tail]

\* the blocks of which a file may have none
BlockNames == {"Info", "Vertices", "Edges", "Faces", "Locations", "Elements"}

PassFiles ==
    {InfoFile(absent) : absent \in SUBSET InfoBlockFields}
    \cup {[BaseFile EXCEPT !.omit = {b}] : b \in BlockNames}
    \cup {ShortLocationsFile(n) : n \in 1..(Len(BaseLocations) - 1)}
    \cup {RegionOrderFile(ms, afters, tail) :
            ms \in [1..Len(RegionNames) -> {"", "Silicon"}],
            afters \in [1..Len(RegionNames) -> BOOLEAN],
            tail \in {"", "Close", "Locations", "Elements"}}
    \cup {[BaseFile EXCEPT !.nbs = <<V, Ed, F, C, Len(BaseRegions)>>] :
            V \in Counts(Len(BaseVertices)), Ed \in Counts(Len(BaseEdges)),
            F \in Counts(Len(BaseFaces)), C \in Counts(Len(BaseElements))}
    \cup {[BaseFile EXCEPT !.dim = dim] : dim \in 1..MaxDimension}
    \cup {[BaseFile EXCEPT !.dim = dim, !.nbs[1] = 0 - 1] : dim \in 1..MaxDimension}
    \cup {LocationsFile(p, c) : p \in 1..Len(BaseLocations), c \in LocationChars}
    \cup {MeshFile(form, <<l>>, <<>>) : form \in Forms, l \in DataLines(BaseFaces[2])}
    \cup {MeshFile(form, <<>>, <<l>>) : form \in Forms, l \in DataLines(BaseElements[2])}
    \cup {RegionsFile(l1, l2, m2) :
            l1 \in IndexLists, l2 \in IndexLists, m2 \in {"Oxide", ""}}

-----------------------------------------------------------------------------
(* State *)

\* calls lists the section parsers (and the statistics) that parse_all invoked
NoResult == [raised |-> "", returned |-> FALSE, stats |-> <<>>, validation |-> <<>>,
             calls |-> <<>>]

InitParser ==
    /\ strict_mode = FALSE
    /\ info = NoInfo
    /\ regions = <<>>
    /\ locations_chars = <<>>
    /\ element_types = <<>>
    /\ face_types = <<>>
    /\ parse_warnings = <<>>
    /\ parse_errors = <<>>
    /\ parse_status = SUCCESS

\* vtkUnstructuredGrid(): no points, no cells
EmptyGrid == [points |-> <<>>, cells |-> <<>>]

\* DFISEReader.__init__: no file name, no parser, nothing cached, MeshType 0;
\* None is the empty sequence, a value v that is held is <<v>>
NewReader ==
    [filename |-> "", parser |-> <<>>, parsed_successfully |-> FALSE,
     vertices |-> <<>>, elements |-> <<>>, regions |-> <<>>,
     material_arrays |-> <<>>, mesh_type |-> 0, cached_output |-> <<>>]

InitLocals ==
    /\ vertices = <<>>
    /\ edges = <<>>
    /\ faces_as_edges = <<>>
    /\ elements_as_faces = <<>>
    /\ faces_as_vertices = <<>>
    /\ elements_as_vertices = <<>>
    /\ region_elements = <<>>
    /\ mappings = [element_to_region |-> <<>>, material_to_mid |-> <<>>,
                   region_to_pid |-> <<>>]
    /\ boundary_faces = <<>>
    /\ eid_counter = 0
    /\ nas = <<>>
    /\ summary = <<>>
    /\ first = <<>>
    /\ reader = NewReader
    /\ output = EmptyGrid
    /\ result = NoResult

RaiseFrom(res, exc) ==
    /\ pc' = "raised"
    /\ result' = [res EXCEPT !.raised = exc]

Raise(exc) == RaiseFrom(result, exc)

Called(name) == [result EXCEPT !.calls = Append(@, name)]

-----------------------------------------------------------------------------
(* export_to_nas, steps 1 to 3: the Info block if not yet parsed, the four *)
(* geometry blocks, the regions, then the reconstruction of the faces and  *)
(* of the elements.                                                        *)

ExportParseInfo ==
    /\ pc = "export_info"
    /\ IF info # NoInfo
       THEN /\ pc' = "export_vertices"
            /\ UNCHANGED <<info, diagVars, result>>
       ELSE LET r == parse_info_block(Text(file), strict_mode, info)
            IN /\ info' = r.info
               /\ SetDiag(record_issues(Diag, r.ev))
               /\ IF r.raised # "" THEN Raise(r.raised)
                  ELSE pc' = "export_vertices" /\ UNCHANGED result
    /\ UNCHANGED <<exportVars, readerVars, file, strict_mode, regions, locations_chars, element_types,
                   face_types, geomVars>>

\* a geometry decoder of export_to_nas: ValueError when it returns nothing
ExportDecode(at, r, next) ==
    /\ pc = at
    /\ SetDiag(record_issues(Diag, r.ev))
    /\ IF r.out = <<>> THEN Raise("ValueError")
       ELSE pc' = next /\ UNCHANGED result
    /\ UNCHANGED <<exportVars, readerVars, file, strict_mode, info, regions, locations_chars,
                   element_types, face_types>>

ExportParseVertices ==
    /\ LET r == parse_vertices(Text(file))
       IN /\ ExportDecode("export_vertices", r, "export_edges")
          /\ vertices' = r.out
    /\ UNCHANGED <<edges, faces_as_edges, elements_as_faces, faces_as_vertices,
                   elements_as_vertices, region_elements>>

ExportParseEdges ==
    /\ LET r == parse_edges_full(Text(file))
       IN /\ ExportDecode("export_edges", r, "export_faces")
          /\ edges' = r.out
    /\ UNCHANGED <<vertices, faces_as_edges, elements_as_faces, faces_as_vertices,
                   elements_as_vertices, region_elements>>

ExportParseFaces ==
    /\ LET r == parse_faces_full(Text(file))
       IN /\ ExportDecode("export_faces", r, "export_elements")
          /\ faces_as_edges' = r.out
    /\ UNCHANGED <<vertices, edges, elements_as_faces, faces_as_vertices,
                   elements_as_vertices, region_elements>>

ExportParseElements ==
    /\ LET r == parse_elements_full(Text(file))
       IN /\ ExportDecode("export_elements", r, "export_regions")
          /\ elements_as_faces' = r.out
    /\ UNCHANGED <<vertices, edges, faces_as_edges, faces_as_vertices,
                   elements_as_vertices, region_elements>>

\* a parser that adds the regions parsed again to those it holds
kept_regions_merged(cur, parsed) == cur \o parsed

\* if not self.regions: self.parse_regions()
kept_regions(cur, parsed) == IF cur = <<>> THEN parsed ELSE cur

\* if not self.regions: self.parse_regions(); then parse_region_elements()
ExportParseRegions ==
    /\ pc = "export_regions"
    /\ LET text == Text(file)
           r == parse_regions(text, info)
       IN IF regions = <<>> /\ r.raised
          THEN /\ Raise("ZeroDivisionError")
               /\ UNCHANGED <<regions, region_elements>>
          ELSE /\ regions' = kept_regions(regions, r.out)
               /\ region_elements' = parse_region_elements(text)
               /\ pc' = "export_reconstruct_faces"
               /\ UNCHANGED result
    /\ UNCHANGED <<exportVars, readerVars, file, strict_mode, info, locations_chars, element_types,
                   face_types, diagVars, vertices, edges, faces_as_edges,
                   elements_as_faces, faces_as_vertices, elements_as_vertices>>

\* the reconstruction loops: an entry whose reconstruction raises becomes the
\* placeholder and one warning
reconstruct_faces(fae, edgs) ==
    [out |-> [i \in 1..Len(fae) |->
                IF face_reconstruct_raises(fae[i], edgs) THEN <<0, 0, 0>>
                ELSE reconstruct_face_vertices(fae[i], edgs)],
     ev  |-> Warnings(Len(SelectSeq(fae,
                        LAMBDA fe : face_reconstruct_raises(fe, edgs))),
                      "Error reconstructing face")]

reconstruct_elements(eaf, fav) ==
    [out |-> [i \in 1..Len(eaf) |->
                IF element_reconstruct_raises(eaf[i], fav) THEN <<0, 0, 0, 0>>
                ELSE reconstruct_element_vertices(eaf[i], fav)],
     ev  |-> Warnings(Len(SelectSeq(eaf,
                        LAMBDA ef : element_reconstruct_raises(ef, fav))),
                      "Error reconstructing element")]

ExportReconstructFaces ==
    /\ pc = "export_reconstruct_faces"
    /\ LET r == reconstruct_faces(faces_as_edges, edges)
       IN /\ faces_as_vertices' = r.out
          /\ SetDiag(record_issues(Diag, r.ev))
    /\ pc' = "export_reconstruct_elements"
    /\ UNCHANGED <<exportVars, readerVars, file, strict_mode, info, regions, locations_chars, element_types,
                   face_types, vertices, edges, faces_as_edges, elements_as_faces,
                   elements_as_vertices, region_elements, result>>

ExportReconstructElements ==
    /\ pc = "export_reconstruct_elements"
    /\ LET r == reconstruct_elements(elements_as_faces, faces_as_vertices)
       IN /\ elements_as_vertices' = r.out
          /\ SetDiag(record_issues(Diag, r.ev))
    /\ pc' = "export_mappings"
    /\ UNCHANGED <<exportVars, readerVars, file, strict_mode, info, regions, locations_chars, element_types,
                   face_types, vertices, edges, faces_as_edges, elements_as_faces,
                   faces_as_vertices, region_elements, result>>

\* The element reconstruction gathers the vertices of the four faces in a set,
\* so the order of the references on the element line has no part in it: the
\* four references are drawn in nondecreasing order.
InitGeom ==
    /\ \/ \E a \in Refs(Len(BaseEdges)), b \in Refs(Len(BaseEdges)),
             c \in Refs(Len(BaseEdges)) : file = FaceFile(a, b, c)
       \/ \E a \in Refs(Len(BaseFaces)), b \in Refs(Len(BaseFaces)),
             c \in Refs(Len(BaseFaces)), d \in Refs(Len(BaseFaces)) :
            /\ a <= b /\ b <= c /\ c <= d
            /\ file = ElementFile(a, b, c, d)
       \/ \E form \in Forms, a \in Refs(Len(BaseEdges)), b \in Refs(Len(BaseEdges)) :
            file = ShortFaceFile(form, a, b)
    /\ InitParser
    /\ InitLocals
    /\ files = <<>>
    /\ include_surfaces = FALSE
    /\ pc = "export_info"

NextGeom ==
    \/ ExportParseInfo
    \/ ExportParseVertices
    \/ ExportParseEdges
    \/ ExportParseFaces
    \/ ExportParseElements
    \/ ExportParseRegions
    \/ ExportReconstructFaces
    \/ ExportReconstructElements

SpecGeom == InitGeom /\ [][NextGeom]_vars

-----------------------------------------------------------------------------
(* export_to_nas, steps 4 to 6: the mappings, the boundary faces, the file *)

\* a mapping in which the region earlier in the dictionary stays
element_to_region_first(re) ==
    LET holds(e) == {i \in 1..Len(re) : \E j \in 1..Len(re[i].elems) : re[i].elems[j] = e}
        idx == UNION {{re[i].elems[j] : j \in 1..Len(re[i].elems)} : i \in 1..Len(re)}
    IN [e \in idx |-> re[CHOOSE i \in holds(e) : \A j \in holds(e) : i <= j].name]

\* element index -> the region whose list holds it; the region later in the
\* dictionary overwrites the earlier
element_to_region(re) ==
    LET holds(e) == {i \in 1..Len(re) : \E j \in 1..Len(re[i].elems) : re[i].elems[j] = e}
        idx == UNION {{re[i].elems[j] : j \in 1..Len(re[i].elems)} : i \in 1..Len(re)}
    IN [e \in idx |-> re[CHOOSE i \in holds(e) : \A j \in holds(e) : j <= i].name]

\* the materials in the order of their first region: material m has the id
\* of its place
RECURSIVE material_to_mid(_)
material_to_mid(regs) ==
    IF regs = <<>> THEN <<>>
    ELSE LET before == material_to_mid(SubSeq(regs, 1, Len(regs) - 1))
             m == regs[Len(regs)].material
         IN IF \E k \in 1..Len(before) : before[k] = m THEN before
            ELSE Append(before, m)

\* the region names sorted: region n has the id of its place
region_to_pid(re) ==
    SelectSeq(RegionNames, LAMBDA n : \E i \in 1..Len(re) : re[i].name = n)

\* d[key] of a dictionary kept as the sequence of its keys in id order
id_of(d, key) == CHOOSE k \in 1..Len(d) : d[k] = key

ExportBuildMappings ==
    /\ pc = "export_mappings"
    /\ mappings' = [element_to_region |-> element_to_region(region_elements),
                    material_to_mid |-> material_to_mid(regions),
                    region_to_pid |-> region_to_pid(region_elements)]
    /\ pc' = "export_boundary"
    /\ UNCHANGED <<file, parserVars, geomVars, include_surfaces, boundary_faces,
                   eid_counter, nas, summary, first, readerVars, result>>

\* step 5: the faces of location code e, when a code was read for every face
ExportBoundaryFaces ==
    /\ pc = "export_boundary"
    /\ IF include_surfaces
       THEN LET r == parse_locations_full(Text(file))
                locations == r.out
            IN /\ SetDiag(record_issues(Diag, r.ev))
               /\ boundary_faces' =
                    IF Len(locations) = Len(faces_as_vertices)
                    THEN SelectSeq([i \in 1..Len(locations) |-> i - 1],
                                   LAMBDA i : locations[i + 1] = "e")
                    ELSE <<>>
       ELSE UNCHANGED <<diagVars, boundary_faces>>
    /\ pc' = "write_header"
    /\ UNCHANGED <<file, strict_mode, info, regions, locations_chars, element_types,
                   face_types, geomVars, include_surfaces, mappings, eid_counter,
                   nas, summary, first, readerVars, result>>

\* a line of the file: a card with its id, the id it refers to and its nodes
\* or coordinates, or a line that is no card
Card(kind, id, ref, nodes) == [kind |-> kind, id |-> id, ref |-> ref, nodes |-> nodes]
Other(kind) == Card(kind, 0, 0, <<>>)
plus_one(verts) == [j \in 1..Len(verts) |-> verts[j] + 1]

\* the parts of the with block, the elements written before the nodes
WriteStages_elements_first ==
    <<"write_header", "write_CTETRA", "write_GRID", "write_MAT1", "write_PSOLID",
      "write_CTRIA3", "write_footer">>

\* the parts of the with block, in the order of the code
WriteStages ==
    <<"write_header", "write_GRID", "write_MAT1", "write_PSOLID", "write_CTETRA",
      "write_CTRIA3", "write_footer">>

\* a CTETRA loop that leaves no element out
ctetra_cards_all(eav, maps) ==
    [k \in 1..Len(eav) |->
       Card("CTETRA", k,
            IF (k - 1) \in DOMAIN maps.element_to_region
            THEN id_of(maps.region_to_pid, maps.element_to_region[k - 1]) ELSE 1,
            plus_one(eav[k]))]

\* the CTETRA loop: the elements that have a region, in index order, numbered
\* by eid_counter from 1
ctetra_cards(eav, maps) ==
    LET sel == SelectSeq([i \in 1..Len(eav) |-> i - 1],
                         LAMBDA e : e \in DOMAIN maps.element_to_region)
    IN [k \in 1..Len(sel) |->
          Card("CTETRA", k, id_of(maps.region_to_pid, maps.element_to_region[sel[k]]),
               plus_one(eav[sel[k] + 1]))]

\* the CTRIA3 loop: eid_counter goes on from the CTETRA loop; unpacking a face
\* of other than three vertices raises, and ends the loop
ctria3_cards(fav, boundary, eid) ==
    LET bad == {k \in 1..Len(boundary) : Len(fav[boundary[k] + 1]) # 3}
        n == IF bad = {} THEN Len(boundary) ELSE Least(bad) - 1
    IN [cards |-> [k \in 1..n |->
                     Card("CTRIA3", eid + k - 1, 1, plus_one(fav[boundary[k] + 1]))],
        raised |-> bad # {}]

\* the lines one part of the with block writes, the eid_counter after it and
\* whether it raised
write_stage(stage, eid) ==
    LET maps == mappings
        done(cards) == [cards |-> cards, eid |-> eid, raised |-> FALSE]
    IN CASE stage = "write_header" ->
              done(<<Other("CEND"), Other("BEGIN BULK"), Other("$"), Other("$"),
                     Other("$")>>)
         [] stage = "write_GRID" ->
              done(<<Other("$")>>
                   \o [i \in 1..Len(vertices) |-> Card("GRID", i, 0, vertices[i])]
                   \o <<Other("$")>>)
         [] stage = "write_MAT1" ->
              done(<<Other("$")>>
                   \o [j \in 1..(2 * Len(maps.material_to_mid)) |->
                         IF j % 2 = 1 THEN Other("$")
                         ELSE Card("MAT1", j \div 2, 0, <<>>)]
                   \o <<Other("$")>>)
         [] stage = "write_PSOLID" ->
              LET pids == SelectSeq([i \in 1..Len(maps.region_to_pid) |-> i],
                             LAMBDA pid : \E i \in 1..Len(regions) :
                                 regions[i].name = maps.region_to_pid[pid])
                  region_info(pid) ==
                      regions[CHOOSE i \in 1..Len(regions) :
                                  regions[i].name = maps.region_to_pid[pid]]
              IN done(<<Other("$")>>
                      \o [k \in 1..Len(pids) |->
                            Card("PSOLID", pids[k],
                                 id_of(maps.material_to_mid, region_info(pids[k]).material),
                                 <<>>)]
                      \o <<Other("$")>>)
         [] stage = "write_CTETRA" ->
              LET cards == ctetra_cards(elements_as_vertices, maps)
              IN [cards |-> <<Other("$")>> \o cards \o <<Other("$")>>,
                  eid |-> 1 + Len(cards), raised |-> FALSE]
         [] stage = "write_CTRIA3" ->
              IF include_surfaces /\ boundary_faces # <<>>
              THEN LET r == ctria3_cards(faces_as_vertices, boundary_faces, eid)
                   IN [cards |-> <<Other("$")>> \o r.cards
                                 \o (IF r.raised THEN <<>> ELSE <<Other("$")>>),
                       eid |-> eid + Len(r.cards), raised |-> r.raised]
              ELSE done(<<>>)
         [] stage = "write_footer" -> done(<<Other("ENDDATA")>>)

\* step 6 and the summary: one part of the with block; an exception leaves the
\* file as written so far and becomes RuntimeError; after the footer the
\* counts are printed and output_path is returned
ExportWrite ==
    /\ \E k \in 1..Len(WriteStages) :
         /\ pc = WriteStages[k]
         /\ LET w == write_stage(pc, eid_counter)
            IN /\ nas' = nas \o w.cards
               /\ eid_counter' = w.eid
               /\ IF w.raised
                  THEN Raise("RuntimeError") /\ UNCHANGED summary
                  ELSE IF k < Len(WriteStages)
                  THEN pc' = WriteStages[k + 1] /\ UNCHANGED <<summary, result>>
                  ELSE /\ pc' = "exported"
                       /\ result' = [result EXCEPT !.returned = TRUE]
                       /\ summary' =
                            <<[grid |-> Len(vertices),
                               mat1 |-> Len(mappings.material_to_mid),
                               psolid |-> Len(mappings.region_to_pid),
                               ctetra |-> w.eid - 1,
                               ctria3 |-> IF include_surfaces
                                          THEN <<Len(boundary_faces)>> ELSE <<>>]>>
    /\ UNCHANGED <<file, parserVars, geomVars, include_surfaces, mappings,
                   boundary_faces, first, readerVars>>

\* the collections a call of export_to_nas builds, and the region records
Collections ==
    [vertices |-> vertices, edges |-> edges, faces_as_edges |-> faces_as_edges,
     elements_as_faces |-> elements_as_faces,
     faces_as_vertices |-> faces_as_vertices,
     elements_as_vertices |-> elements_as_vertices,
     region_elements |-> region_elements, regions |-> regions,
     boundary_faces |-> boundary_faces]

\* a second call of export_to_nas on the same parser, after the first has
\* returned or raised: the locals are new, the parser keeps what it holds
ExportAgain ==
    /\ pc \in {"exported", "raised"}
    /\ first = <<>>
    /\ first' = <<Collections>>
    /\ pc' = "export_info"
    /\ vertices' = <<>>
    /\ edges' = <<>>
    /\ faces_as_edges' = <<>>
    /\ elements_as_faces' = <<>>
    /\ faces_as_vertices' = <<>>
    /\ elements_as_vertices' = <<>>
    /\ region_elements' = <<>>
    /\ mappings' = [element_to_region |-> <<>>, material_to_mid |-> <<>>,
                    region_to_pid |-> <<>>]
    /\ boundary_faces' = <<>>
    /\ eid_counter' = 0
    /\ nas' = <<>>
    /\ summary' = <<>>
    /\ result' = NoResult
    /\ UNCHANGED <<file, parserVars, include_surfaces, readerVars>>

\* The files exported: the base mesh in both forms, with every pair of region
\* lists, with one more face or one more element (listed by the second
\* region), with another location code, a shorter Locations block, a face
\* line cut short, or a block left out.
ExportFiles ==
    {MeshFile(form, <<>>, <<>>) : form \in Forms}
    \cup {RegionsFile(l1, l2, m2) :
            l1 \in IndexLists, l2 \in IndexLists, m2 \in {"", "Oxide", "Silicon"}}
    \cup {FaceFile(a, b, b) : a \in Refs(Len(BaseEdges)), b \in Refs(Len(BaseEdges))}
    \cup {[ElementFile(a, a, b, b) EXCEPT
              !.regions[2].elems = <<1, Len(BaseElements)>>, !.regions[2].count = 2] :
            a \in Refs(Len(BaseFaces)), b \in Refs(Len(BaseFaces))}
    \cup {LocationsFile(p, c) : p \in 1..Len(BaseLocations), c \in LocationChars}
    \cup {ShortLocationsFile(n) : n \in 1..(Len(BaseLocations) - 1)}
    \cup {ShortFaceFile(form, 0, 3) : form \in Forms}
    \cup {[BaseFile EXCEPT !.omit = {b}] : b \in BlockNames}

InitExport ==
    /\ file \in ExportFiles
    /\ InitParser
    /\ InitLocals
    /\ files = <<>>
    /\ include_surfaces \in BOOLEAN
    /\ pc = "export_info"

NextExport ==
    \/ NextGeom
    \/ ExportBuildMappings
    \/ ExportBoundaryFaces
    \/ ExportWrite
    \/ ExportAgain

SpecExport == InitExport /\ [][NextExport]_vars


-----------------------------------------------------------------------------
(* parse_all, step by step, and validate_consistency after it.             *)

ParseAllBegin ==
    /\ pc = "idle"
    /\ \E strict \in BOOLEAN : strict_mode' = strict
    /\ pc' = "parse_info"
    /\ UNCHANGED <<exportVars, readerVars, file, info, regions, locations_chars, element_types,
                   face_types, diagVars, geomVars, result>>

\* CorruptedFileError and MissingRequiredSectionError pass through parse_all
ParseInfo ==
    /\ pc = "parse_info"
    /\ LET r == parse_info_block(Text(file), strict_mode, info)
       IN /\ info' = r.info
          /\ SetDiag(record_issues(Diag, r.ev))
          /\ IF r.raised # "" THEN Raise(r.raised)
             ELSE pc' = "parse_locations" /\ UNCHANGED result
    /\ UNCHANGED <<exportVars, readerVars, file, strict_mode, regions, locations_chars, element_types,
                   face_types, geomVars>>

ParseLocations ==
    /\ pc = "parse_locations"
    /\ LET r == parse_locations(Text(file), info)
       IN /\ locations_chars' = r.out
          /\ SetDiag(record_issues(Diag, r.ev))
    /\ pc' = "parse_elements"
    /\ result' = Called("Locations")
    /\ UNCHANGED <<exportVars, readerVars, file, strict_mode, info, regions, element_types, face_types,
                   geomVars>>

ParseElements ==
    /\ pc = "parse_elements"
    /\ element_types' = parse_elements(Text(file))
    /\ pc' = "parse_faces"
    /\ result' = Called("Elements")
    /\ UNCHANGED <<exportVars, readerVars, file, strict_mode, info, regions, locations_chars, face_types,
                   diagVars, geomVars>>

ParseFaces ==
    /\ pc = "parse_faces"
    /\ face_types' = parse_faces(Text(file))
    /\ pc' = "parse_regions"
    /\ result' = Called("Faces")
    /\ UNCHANGED <<exportVars, readerVars, file, strict_mode, info, regions, locations_chars,
                   element_types, diagVars, geomVars>>

\* an exception of a section or of the statistics: raised again in strict
\* mode, through the handler that records it as unexpected; recorded and
\* passed over otherwise.  res is the result when parse_all goes on.
Recover(msg, next, called, res) ==
    IF strict_mode
    THEN /\ SetDiag(add_error(Diag, "Unexpected error during parsing"))
         /\ RaiseFrom(called, "ZeroDivisionError")
    ELSE /\ SetDiag(add_error(Diag, msg))
         /\ pc' = next
         /\ result' = res

ParseRegions ==
    /\ pc = "parse_regions"
    /\ LET r == parse_regions(Text(file), info)
       IN IF r.raised
          THEN /\ Recover("Failed to parse Regions", "parse_coord_system",
                          Called("Regions"), Called("Regions"))
               /\ UNCHANGED regions
          ELSE /\ regions' = r.out
               /\ pc' = "parse_coord_system"
               /\ result' = Called("Regions")
               /\ UNCHANGED diagVars
    /\ UNCHANGED <<exportVars, readerVars, file, strict_mode, info, locations_chars, element_types,
                   face_types, geomVars>>

\* the files of the model have no CoordSystem block: coord_system stays None
ParseCoordSystem ==
    /\ pc = "parse_coord_system"
    /\ pc' = "compute_statistics"
    /\ result' = Called("CoordSystem")
    /\ UNCHANGED <<exportVars, readerVars, file, parserVars, geomVars>>

\* the end of parse_all: the statistics, and the return of (info, stats)
ComputeStatistics ==
    /\ pc = "compute_statistics"
    /\ IF statistics_raises(info)
       THEN Recover("Failed to compute statistics", "parsed", Called("statistics"),
                    [Called("statistics") EXCEPT !.returned = TRUE])
       ELSE /\ result' = [Called("statistics") EXCEPT !.returned = TRUE,
                              !.stats = <<compute_statistics(info, locations_chars)>>]
            /\ pc' = "parsed"
            /\ UNCHANGED diagVars
    /\ UNCHANGED <<exportVars, readerVars, file, strict_mode, info, regions, locations_chars,
                   element_types, face_types, geomVars>>

ValidateConsistency ==
    /\ pc = "parsed"
    /\ result' = [result EXCEPT !.validation =
            <<validate_consistency(info, regions, element_types, face_types,
                                   locations_chars)>>]
    /\ pc' = "validated"
    /\ UNCHANGED <<exportVars, readerVars, file, parserVars, geomVars>>

Init ==
    /\ file \in PassFiles
    /\ InitParser
    /\ InitLocals
    /\ files = <<>>
    /\ include_surfaces = FALSE
    /\ pc = "idle"

Next ==
    \/ ParseAllBegin
    \/ ParseInfo
    \/ ParseLocations
    \/ ParseElements
    \/ ParseFaces
    \/ ParseRegions
    \/ ParseCoordSystem
    \/ ComputeStatistics
    \/ ValidateConsistency

Spec == Init /\ [][Next]_vars

-----------------------------------------------------------------------------
(* The ParaView reader (src/DFISEReaderPlugin/DFISEReader.py): the module   *)
(* DFISEParaViewModule that parses a file once, and the DFISEReader that    *)
(* keeps a parser, the geometry taken from it and the grid built last.  No  *)
(* material is deselected: every element is in the volume output.           *)

\* DFISEParaViewModule.parse_all_data on the file at filepath, whose lines
\* are f: any exception makes it return False (parsed), and nothing it holds
\* is read then
parse_all_data(filepath, f) ==
    LET module(inf, edgs, fae, eaf) ==
            LET fav == [i \in 1..Len(fae) |-> reconstruct_face_vertices(fae[i], edgs)]
            IN IF \/ file_access_issues(f) # <<>>
                  \/ inf.raised # ""
                  \/ parse_regions(f, inf.info).raised
                  \/ \E i \in 1..Len(fae) : face_reconstruct_raises(fae[i], edgs)
                  \/ \E i \in 1..Len(eaf) : element_reconstruct_raises(eaf[i], fav)
               THEN [filepath |-> filepath, parsed |-> FALSE, vertices |-> <<>>,
                     elements |-> <<>>, materials |-> <<>>, regions |-> <<>>]
               ELSE [filepath |-> filepath, parsed |-> TRUE,
                     vertices |-> parse_vertices(f).out,
                     elements |-> [i \in 1..Len(eaf) |->
                                     reconstruct_element_vertices(eaf[i], fav)],
                     materials |-> element_to_region(parse_region_elements(f)),
                     regions |-> parse_regions(f, inf.info).out]
    IN module(parse_info_block(f, FALSE, NoInfo), parse_edges_full(f).out,
              parse_faces_full(f).out, parse_elements_full(f).out)

\* DFISEReader._clear_cache: the geometry and the grid, not the parser
clear_cache(rd) ==
    [rd EXCEPT !.vertices = <<>>, !.elements = <<>>, !.regions = <<>>,
               !.material_arrays = <<>>, !.cached_output = <<>>]

\* DFISEReader._ensure_parser: [rd, raised]; a parser is made when there is
\* none or the last one failed
ensure_parser(rd, fs) ==
    LET keep(m) ==
            IF m.parsed
            THEN [rd |-> clear_cache([rd EXCEPT !.parser = <<m>>,
                                                !.parsed_successfully = TRUE]),
                  raised |-> FALSE]
            ELSE [rd |-> [rd EXCEPT !.parser = <<m>>, !.parsed_successfully = FALSE],
                  raised |-> TRUE]
    IN IF rd.parser # <<>> /\ rd.parsed_successfully
       THEN [rd |-> rd, raised |-> FALSE]
       ELSE IF rd.filename \notin DOMAIN fs
       THEN [rd |-> rd, raised |-> TRUE]
       ELSE keep(parse_all_data(rd.filename, Text(fs[rd.filename])))

\* DFISEReader._parse_geometry: [rd, raised]; the geometry is taken from the
\* parser the reader holds
parse_geometry(rd, fs) ==
    LET take(r) ==
            IF r.raised THEN r
            ELSE [rd |-> [r.rd EXCEPT !.vertices = <<r.rd.parser[1].vertices>>,
                                      !.elements = <<r.rd.parser[1].elements>>,
                                      !.material_arrays = <<r.rd.parser[1].materials>>,
                                      !.regions = <<r.rd.parser[1].regions>>],
                  raised |-> FALSE]
    IN IF rd.vertices # <<>> /\ rd.elements # <<>>
       THEN [rd |-> rd, raised |-> FALSE]
       ELSE take(ensure_parser(rd, fs))

\* a cell of the grid: its CellKind, the index of the element or face it is
\* made of, its point ids and the region it is labelled with
Cell(kind, of, points, region) ==
    [kind |-> kind, of |-> of, points |-> points, region |-> region]

\* face_to_elems.get(idx, []): the elements that refer to the face idx, once
\* for every reference, in element order
face_to_elems(eaf, idx) ==
    LET refs == [k \in 1..(4 * Len(eaf)) |->
                   [elem |-> (k - 1) \div 4,
                    face |-> actual_idx(eaf[((k - 1) \div 4) + 1][((k - 1) % 4) + 1])]]
        hits == SelectSeq(refs, LAMBDA r : r.face = idx)
    IN [k \in 1..Len(hits) |-> hits[k].elem]

\* the tetrahedra of _create_vtk_output: one Volume cell for every element
volume_cells(rd) ==
    LET elems == rd.elements[1]
        elem_to_region == rd.material_arrays[1]
    IN [i \in 1..Len(elems) |->
          Cell("Volume", i - 1, elems[i],
               IF (i - 1) \in DOMAIN elem_to_region THEN elem_to_region[i - 1]
               ELSE "Unknown")]

\* the surfaces of _create_vtk_output, read from the file f of the parser: a
\* face of location e gives one cell, a face of location f one cell for each
\* side; an exception ends the loop silently (a face of fewer than three
\* vertices), and one in the reconstruction leaves no surface cell at all
surface_cells(rd, f) ==
    LET edgs == parse_edges_full(f).out
        fae == parse_faces_full(f).out
        locations == parse_locations_full(f).out
        eaf == parse_elements_full(f).out
        elem_to_region == rd.material_arrays[1]
        fav == [i \in 1..Len(fae) |-> reconstruct_face_vertices(fae[i], edgs)]
        loc(idx) == IF idx < Len(locations) THEN locations[idx + 1] ELSE "i"
        shown == SelectSeq([i \in 1..Len(fav) |-> i - 1],
                           LAMBDA idx : loc(idx) \in {"e", "f"})
        bad == {k \in 1..Len(shown) : Len(fav[shown[k] + 1]) < 3}
        n == IF bad = {} THEN Len(shown) ELSE Least(bad) - 1
        side(idx, k) ==
            LET adj == face_to_elems(eaf, idx)
            IN IF Len(adj) >= k /\ adj[k] \in DOMAIN elem_to_region
               THEN elem_to_region[adj[k]] ELSE ""
        slots == SelectSeq([k \in 1..(2 * n) |->
                              [idx |-> shown[(k + 1) \div 2], k |-> ((k - 1) % 2) + 1]],
                           LAMBDA s : s.k = 1 \/ loc(s.idx) = "f")
    IN IF \E i \in 1..Len(fae) : face_reconstruct_raises(fae[i], edgs)
       THEN <<>>
       ELSE [j \in 1..Len(slots) |->
               Cell(IF loc(slots[j].idx) = "e" THEN "Surface-Exterior"
                    ELSE "Surface-Interface",
                    slots[j].idx, fav[slots[j].idx + 1],
                    side(slots[j].idx, slots[j].k))]

\* DFISEReader._create_vtk_output once the geometry is there: the points, the
\* tetrahedra for MeshType 0 and 2, then the surfaces for MeshType 1 and 2
vtk_output(rd, fs) ==
    [points |-> rd.vertices[1],
     cells |-> (IF rd.mesh_type \in {0, 2} THEN volume_cells(rd) ELSE <<>>)
               \o (IF rd.mesh_type \in {1, 2}
                   THEN surface_cells(rd, Text(fs[rd.parser[1].filepath]))
                   ELSE <<>>)]

\* DFISEReader.SetFileName: the name of one of the two files on disk, or of
\* a file that is not there
SetFileName ==
    /\ \E filename \in {"a.grd", "b.grd", "none.grd"} :
         /\ reader.filename # filename
         /\ reader' = clear_cache([reader EXCEPT !.filename = filename])
    /\ UNCHANGED <<file, parserVars, pc, geomVars, exportVars, files, output, result>>

\* DFISEReader.SetMeshType
SetMeshType ==
    /\ \E mesh_type \in 0..2 :
         /\ reader.mesh_type # mesh_type
         /\ reader' = clear_cache([reader EXCEPT !.mesh_type = mesh_type])
    /\ UNCHANGED <<file, parserVars, pc, geomVars, exportVars, files, output, result>>

\* DFISEReader.RequestData: the cached grid if there is one, else the grid
\* built and cached; an exception gives the empty grid
RequestData ==
    /\ LET cache(rd, grid) ==
               /\ output' = grid
               /\ reader' = [rd EXCEPT !.cached_output = <<grid>>]
           serve(r) ==
               IF r.raised
               THEN output' = EmptyGrid /\ reader' = r.rd
               ELSE cache(r.rd, vtk_output(r.rd, files))
       IN IF reader.cached_output # <<>>
          THEN output' = reader.cached_output[1] /\ UNCHANGED reader
          ELSE serve(parse_geometry(reader, files))
    /\ UNCHANGED <<file, parserVars, pc, geomVars, exportVars, files, result>>

\* The files read: the base mesh with another location code for one face,
\* with one more element on one face, with a face line cut short, or with no
\* Info block.
ReaderFiles ==
    {LocationsFile(p, c) : p \in 1..Len(BaseLocations), c \in LocationChars}
    \cup {ElementFile(a, a, a, a) : a \in {0, 0 - 1}}
    \cup {ShortFaceFile("bare", 0, 3), [BaseFile EXCEPT !.omit = {"Info"}]}

InitReader ==
    /\ file = BaseFile
    /\ InitParser
    /\ InitLocals
    /\ \E a \in ReaderFiles, b \in {BaseFile, ElementFile(0, 0, 0, 0),
                                   [BaseFile EXCEPT !.omit = {"Info"}]} :
         files = [n \in {"a.grd", "b.grd"} |-> IF n = "a.grd" THEN a ELSE b]
    /\ include_surfaces = FALSE
    /\ pc = "idle"

NextReader ==
    \/ SetFileName
    \/ SetMeshType
    \/ RequestData

SpecReader == InitReader /\ [][NextReader]_vars

-----------------------------------------------------------------------------
(* Valid input, read off the lines of the file and the edges of the base   *)
(* mesh, with no use of the decoders or of the reconstructor.              *)

\* the 0-based index a signed reference r stands for: r, or k for -(k+1)
RefIndex(r) == IF r >= 0 THEN r ELSE 0 - (r + 1)

SetOf(t) == {t[j] : j \in 1..Len(t)}
Distinct(t) == Cardinality(SetOf(t)) = Len(t)

\* every one of the lines is the tag followed by n integers
EveryLineDecodes(lines, tag, n) ==
    \A i \in 1..Len(lines) :
        /\ lines[i].junk = {}
        /\ Len(lines[i].toks) = n + 1
        /\ lines[i].toks[1] = tag

RefsOf(lines) == [i \in 1..Len(lines) |-> Tail(lines[i].toks)]
FaceRefs(d) == BaseFaces \o RefsOf(d.faces)
ElementRefs(d) == BaseElements \o RefsOf(d.elements)

EdgeEnds(r) == SetOf(BaseEdges[RefIndex(r) + 1])

\* three references to three different edges that lie on three vertices
IsClosedTriangle(fr) ==
    /\ Len(fr) = 3
    /\ \A i \in 1..3 : RefIndex(fr[i]) < Len(BaseEdges)
    /\ Distinct([i \in 1..3 |-> RefIndex(fr[i])])
    /\ Cardinality(UNION {EdgeEnds(fr[i]) : i \in 1..3}) = 3

FaceEnds(fr) == UNION {EdgeEnds(fr[i]) : i \in 1..Len(fr)}

\* four references to four different faces, each a closed triangle, that lie
\* on four vertices
IsTetrahedron(er, frs) ==
    /\ Len(er) = 4
    /\ \A i \in 1..4 : /\ RefIndex(er[i]) < Len(frs)
                       /\ IsClosedTriangle(frs[RefIndex(er[i]) + 1])
    /\ Distinct([i \in 1..4 |-> RefIndex(er[i])])
    /\ Cardinality(UNION {FaceEnds(frs[RefIndex(er[i]) + 1]) : i \in 1..4}) = 4

ValidFaces(d) ==
    /\ EveryLineDecodes(d.faces, TriangleTag, 3)
    /\ d.nbs[3] = Len(FaceRefs(d))
    /\ \A i \in 1..Len(FaceRefs(d)) : IsClosedTriangle(FaceRefs(d)[i])

ValidElements(d) ==
    /\ ValidFaces(d)
    /\ EveryLineDecodes(d.elements, TetraTag, 4)
    /\ \A i \in 1..Len(ElementRefs(d)) : IsTetrahedron(ElementRefs(d)[i], FaceRefs(d))

\* n distinct indices of the parsed vertices
IsSimplex(t, n) ==
    /\ Len(t) = n
    /\ Distinct(t)
    /\ \A j \in 1..Len(t) : t[j] \in 0..(Len(vertices) - 1)

FacesReconstructed == pc \in {"export_reconstruct_elements", "export_mappings"}
ElementsReconstructed == pc = "export_mappings"

-----------------------------------------------------------------------------
(* C1: for a valid input (every face line decodes, the Info block declares *)
(* the number of face lines, and the three signed references of every face *)
(* are three edges closing a triangle on three vertices) the export has as *)
(* many reconstructed faces as nb_faces declares, and each of them is      *)
(* three distinct indices of parsed vertices.                              *)
C1_FacesOfValidInput ==
    (FacesReconstructed /\ ValidFaces(file)) =>
        /\ Len(faces_as_vertices) = nb(info, "nb_faces")
        /\ \A i \in 1..Len(faces_as_vertices) : IsSimplex(faces_as_vertices[i], 3)

\* a valid file whose last face line has a negative reference, reconstructed
C1_Witness ==
    /\ FacesReconstructed
    /\ ValidFaces(file)
    /\ file.faces # <<>>
    /\ \E i \in 2..4 : file.faces[1].toks[i] < 0
    /\ Len(faces_as_vertices) = Len(BaseFaces) + 1

(* C2: for a valid input (every element line decodes and its four signed   *)
(* references are the four faces of one tetrahedron) each reconstructed    *)
(* element is four distinct indices of parsed vertices, in strictly        *)
(* ascending order.                                                        *)
C2_ElementsOfValidInput ==
    (ElementsReconstructed /\ ValidElements(file)) =>
        \A i \in 1..Len(elements_as_vertices) :
            /\ IsSimplex(elements_as_vertices[i], 4)
            /\ \A j \in 1..3 :
                elements_as_vertices[i][j] < elements_as_vertices[i][j + 1]

\* a valid file whose last element line has a negative reference, reconstructed
C2_Witness ==
    /\ ElementsReconstructed
    /\ ValidElements(file)
    /\ file.elements # <<>>
    /\ \E i \in 2..5 : file.elements[1].toks[i] < 0
    /\ Len(elements_as_vertices) = Len(BaseElements) + 1

\* the references fr with the i-th replaced by the reversed reference to the
\* same edge
Negated(fr, i) == [fr EXCEPT ![i] = 0 - (fr[i] + 1)]

\* the last face line of the file is three forward references closing a
\* triangle, and the faces are reconstructed
ForwardTriangleReconstructed ==
    /\ FacesReconstructed
    /\ file.faces # <<>>
    /\ EveryLineDecodes(file.faces, TriangleTag, 3)
    /\ \A i \in 2..4 : file.faces[1].toks[i] >= 0
    /\ IsClosedTriangle(Tail(file.faces[1].toks))

(* C3: sign round trip.  For three forward references (k, m, n), in any    *)
(* order, to the edges of a triangle on three distinct vertices, the face  *)
(* reconstructed from them and the face reconstructed from the same        *)
(* references with any one of them negated have the same three vertices.   *)
C3_SignRoundTrip ==
    ForwardTriangleReconstructed =>
        \A i \in 1..3 :
            LET fr == Negated(Tail(file.faces[1].toks), i)
                forward == faces_as_vertices[Len(faces_as_vertices)]
                negated == reconstruct_faces(<<fr>>, edges).out[1]
            IN /\ SetOf(negated) = SetOf(forward)
               /\ Cardinality(SetOf(forward)) = 3

\* a forward triangle whose edges are not listed in rising order
C3_Witness ==
    /\ ForwardTriangleReconstructed
    /\ file.faces[1].toks[2] > file.faces[1].toks[3]
    /\ Len(faces_as_vertices[Len(faces_as_vertices)]) = 3

-----------------------------------------------------------------------------
(* What the regions of the file list, read off its lines. *)

RECURSIVE AllListed(_)
AllListed(rs) == IF rs = <<>> THEN <<>> ELSE Head(rs).elems \o AllListed(Tail(rs))

\* the lists of the regions, taken together, leave out an index of
\* 0..n-1, or hold an index more than once
ListsOmit(d, n) == \E k \in 0..(n - 1) : k \notin SetOf(AllListed(d.regions))
ListsRepeat(d) == ~Distinct(AllListed(d.regions))
ListsPartition(d, n) ==
    /\ SetOf(AllListed(d.regions)) = 0..(n - 1)
    /\ Distinct(AllListed(d.regions))

EveryRegionHasMaterial(d) == \A i \in 1..Len(d.regions) : d.regions[i].material # ""

Validated == pc = "validated"
Returned == pc \in {"parsed", "validated"}

(* C4: when the element lists of the regions, taken together, leave out an *)
(* index of 0..nb_elements-1 or hold an index twice, validate_consistency  *)
(* reports regions_sum_correct = false; when they partition                *)
(* 0..nb_elements-1 it reports true.                                       *)
C4_RegionCoverage ==
    (Validated /\ EveryRegionHasMaterial(file)) =>
        LET n == nb(info, "nb_elements")
            flag == result.validation[1].regions_sum_correct
        IN /\ (ListsOmit(file, n) \/ ListsRepeat(file)) => ~flag
           /\ ListsPartition(file, n) => flag

\* the file has one more face line that carries the tag 3 and two references
HasShortFaceLine(d) ==
    /\ Len(d.faces) = 1
    /\ d.faces[1].junk = {}
    /\ Len(d.faces[1].toks) = 3
    /\ d.faces[1].toks[1] = TriangleTag

(* C5: a line of the Faces block with the tag 3 and two references only    *)
(* adds exactly one warning, does not abort the pass and gives no entry of *)
(* the decoded faces, which are then one fewer than nb_faces declares.     *)
C5_ShortFaceLineWarns ==
    (pc = "export_elements" /\ HasShortFaceLine(file)) =>
        /\ Len(parse_warnings) = 1
        /\ result.raised = ""
        /\ Len(faces_as_edges) = nb(info, "nb_faces") - 1

\* every line of the block, of the base mesh or after it, has the tag
EveryTagIs(more, tag) ==
    \A i \in 1..Len(more) : 1 \notin more[i].junk /\ more[i].toks[1] = tag

(* C6: validate_consistency reports all_faces_type_3 = true exactly when   *)
(* every face line has the tag 3 and as many faces decode as nb_faces      *)
(* declares, and all_elements_type_5 = true exactly when every element     *)
(* line has the tag 5 and as many elements decode as nb_elements declares. *)
C6_TypeHomogeneity ==
    Validated =>
        /\ result.validation[1].all_faces_type_3 <=>
            /\ EveryTagIs(file.faces, TriangleTag)
            /\ Len(parse_faces_full(Text(file)).out) = nb(info, "nb_faces")
        /\ result.validation[1].all_elements_type_5 <=>
            /\ EveryTagIs(file.elements, TetraTag)
            /\ Len(parse_elements_full(Text(file)).out) = nb(info, "nb_elements")

\* the same file with its data lines in the bare form
BareForm(d) == Text([d EXCEPT !.form = "bare"])

(* C7: the two forms of data line are equivalent for every decoder of the  *)
(* Vertices, Edges, Faces and Elements blocks and for the two counters of  *)
(* type tags: a file decodes as the same file written with bare lines.     *)
C7_FormsEquivalent ==
    (pc \in {"parse_regions", "parse_coord_system", "compute_statistics",
             "parsed", "validated"}) =>
        /\ face_types = parse_faces(BareForm(file))
        /\ element_types = parse_elements(BareForm(file))
        /\ parse_vertices(Text(file)).out = parse_vertices(BareForm(file)).out
        /\ parse_edges_full(Text(file)).out = parse_edges_full(BareForm(file)).out
        /\ parse_faces_full(Text(file)).out = parse_faces_full(BareForm(file)).out
        /\ parse_elements_full(Text(file)).out = parse_elements_full(BareForm(file)).out

(* C8: for every Info block that declares non-negative counts V, E, F, C,  *)
(* compute_statistics reports euler_characteristic = V - E + F - C.        *)
C8_EulerReported ==
    (Returned /\ file.absent = {} /\ \A i \in 1..4 : file.nbs[i] >= 0) =>
        /\ result.stats # <<>>
        /\ result.stats[1].euler_characteristic =
                file.nbs[1] - file.nbs[2] + file.nbs[3] - file.nbs[4]

(* C9: in strict mode every condition that records a warning makes         *)
(* parse_all raise instead of returning, and no default is substituted for *)
(* a missing Info field.                                                   *)
C9_StrictPromotesWarnings ==
    strict_mode =>
        /\ Returned => parse_warnings = <<>>
        /\ info # NoInfo => file.absent = {}

\* the base mesh with nothing amiss but the keys its Info block lacks
IsInfoFile(d) == d = InfoFile(d.absent)

(* C10: in non-strict mode, for every subset of the ten Info fields absent *)
(* from an otherwise well-formed Info block, parse_info_block returns an   *)
(* InfoBlock holding the default of every absent field, and parse_all      *)
(* ends without raising and without recording an error.                    *)
C10_DefaultsForAbsentFields ==
    (~strict_mode /\ IsInfoFile(file) /\ pc \notin {"idle", "parse_info"}) =>
        /\ pc # "raised"
        /\ info # NoInfo
        /\ \A k \in file.absent : info[1][k] = defaults[k]
        /\ parse_errors = <<>>

(***************************************************************************)
(* C11: a file with no Info block makes parse_all raise                    *)
(* MissingRequiredSectionError in strict and in non-strict mode alike: once *)
(* the Info parser has run, the call has ended with that exception, it     *)
(* returned neither an InfoBlock nor statistics, and none of the later     *)
(* section parsers was invoked.                                            *)
(***************************************************************************)
HasInfoBlock(f) == \E i \in 1..Len(f) : f[i] = InfoOpen
InfoParserRan == pc \notin {"idle", "parse_info"}

C11_NoInfoBlockRaises ==
    (~HasInfoBlock(Text(file)) /\ InfoParserRan)
    => /\ pc = "raised"
       /\ result.raised = "MissingRequiredSectionError"
       /\ ~result.returned
       /\ info = NoInfo
       /\ result.stats = <<>>
       /\ result.calls = <<>>

C11_Witness ==
    /\ ~HasInfoBlock(Text(file))
    /\ ~strict_mode
    /\ pc = "raised"
    /\ result.raised = "MissingRequiredSectionError"

(***************************************************************************)
(* C12: in non-strict mode, once the Info block has been parsed, parse_all *)
(* invokes the Locations, Elements, Faces, Regions and CoordSystem parsers *)
(* and then the statistics, in that order and each exactly once, also when *)
(* an earlier one raised; each failure appends one entry to the errors     *)
(* list, and both lists only grow at their end, so that their entries stay *)
(* in order of occurrence.  No step after the Info block raises, so the    *)
(* call ends by returning, with the six invocations made.                  *)
(***************************************************************************)
SectionOrder ==
    <<"Locations", "Elements", "Faces", "Regions", "CoordSystem", "statistics">>

IsPrefix(s, t) == Len(s) <= Len(t) /\ SubSeq(t, 1, Len(s)) = s

\* the step about to be taken is a section parser, or the statistics, raising
RegionsFail == pc = "parse_regions" /\ parse_regions(Text(file), info).raised
StatisticsFail == pc = "compute_statistics" /\ statistics_raises(info)

C12_InOrder == IsPrefix(result.calls, SectionOrder)

C12_Appends ==
    /\ IsPrefix(parse_warnings, parse_warnings')
    /\ IsPrefix(parse_errors, parse_errors')
    /\ (~strict_mode /\ RegionsFail)
       => parse_errors' = Append(parse_errors, "Failed to parse Regions")
    /\ (~strict_mode /\ StatisticsFail)
       => parse_errors' = Append(parse_errors, "Failed to compute statistics")
    /\ (~strict_mode /\ (RegionsFail \/ StatisticsFail))
       => result'.calls = Append(result.calls, SectionOrder[Len(result.calls) + 1])
    /\ (~strict_mode /\ InfoParserRan) => pc' # "raised"

C12_SectionsRunInOrder ==
    /\ [](~strict_mode => C12_InOrder)
    /\ []((~strict_mode /\ Returned) => result.calls = SectionOrder)
    /\ [][C12_Appends]_vars

C12_Witness ==
    /\ ~strict_mode
    /\ pc = "parsed"
    /\ result.calls = SectionOrder
    /\ parse_errors = <<"Failed to parse Regions", "Failed to compute statistics">>

(***************************************************************************)
(* C13: in non-strict mode a mismatch of counts is a warning and no error: *)
(* a file whose only defect is that its Locations block has fewer          *)
(* characters than the Info block declares faces ends the parse with       *)
(* status WARNING, at least one warning and an empty errors list.          *)
(***************************************************************************)
OnlyLocationsCountDiffers(d) ==
    \E n \in 1..(Len(BaseLocations) - 1) : d = ShortLocationsFile(n)

C13_CountMismatchWarns ==
    (~strict_mode /\ OnlyLocationsCountDiffers(file) /\ Returned)
    => /\ parse_status = WARNING
       /\ Len(parse_warnings) >= 1
       /\ parse_errors = <<>>

-----------------------------------------------------------------------------
(* The lines of the exported file *)

Records(kind) == SelectSeq(nas, LAMBDA c : c.kind = kind)

\* the exporter is past the CTETRA part of the file
CtetraWritten ==
    \/ pc \in {"write_CTRIA3", "write_footer", "exported"}
    \/ pc = "raised" /\ result.raised = "RuntimeError"

Exported == pc = "exported"

\* the Region blocks of the file that list the element e
ListedBy(e) ==
    {i \in 1..Len(file.regions) : e \in SetOf(file.regions[i].elems)}

\* the property id of a region: its place among the region names, sorted
RankOf(name) == CHOOSE k \in 1..Len(RegionNames) : RegionNames[k] = name
PropertyId(name) ==
    1 + Cardinality({i \in 1..Len(file.regions) :
                       RankOf(file.regions[i].name) < RankOf(name)})

\* the parsed elements some region lists, in index order
ResolvedElements ==
    SelectSeq([i \in 1..Len(elements_as_vertices) |-> i - 1],
              LAMBDA e : ListedBy(e) # {})

(***************************************************************************)
(* C14: export_to_nas writes a CTETRA record for exactly the parsed        *)
(* elements whose index is in the element list of some region, in the      *)
(* order of the element indices; the record is bound to the property id of *)
(* a region that lists the element and carries the element's four          *)
(* reconstructed vertex indices, each plus one.  An element no region      *)
(* lists has no record.                                                    *)
(***************************************************************************)
C14_CtetraPerResolvedElement ==
    CtetraWritten
    => LET recs == Records("CTETRA")
       IN /\ Len(recs) = Len(ResolvedElements)
          /\ \A k \in 1..Len(recs) :
               LET e == ResolvedElements[k]
               IN /\ recs[k].nodes =
                       [j \in 1..4 |-> elements_as_vertices[e + 1][j] + 1]
                  /\ \E i \in ListedBy(e) :
                       recs[k].ref = PropertyId(file.regions[i].name)

C14_Witness ==
    /\ Exported
    /\ Len(Records("CTETRA")) >= 1
    /\ \E e \in 0..(Len(elements_as_vertices) - 1) : ListedBy(e) = {}

(***************************************************************************)
(* C15: the tetrahedra count of the export summary is the number of CTETRA *)
(* records written, whatever the input and with include_surfaces on or     *)
(* off.                                                                    *)
(***************************************************************************)
C15_SummaryCountsCtetra ==
    Exported => summary[1].ctetra = Len(Records("CTETRA"))

(***************************************************************************)
(* C16: once the vertices, edges, faces and elements have each decoded to  *)
(* a non-empty list, export_to_nas does not raise on account of a single   *)
(* face or element (a reference out of range, a face of fewer than three   *)
(* distinct vertices, an element of other than four vertices, an element   *)
(* of no region): the call never ends with an exception.                   *)
(***************************************************************************)
DecodedNonEmpty ==
    /\ vertices # <<>>
    /\ edges # <<>>
    /\ faces_as_edges # <<>>
    /\ elements_as_faces # <<>>

C16_NoRaiseAfterDecode == DecodedNonEmpty => pc # "raised"

(***************************************************************************)
(* C17: within each kind of record (GRID, MAT1, PSOLID, CTETRA, CTRIA3)    *)
(* the ids are 1, 2, .., n in the order written, without a gap, each kind  *)
(* numbered on its own.                                                    *)
(***************************************************************************)
RecordKinds == {"GRID", "MAT1", "PSOLID", "CTETRA", "CTRIA3"}

C17_IdsSequentialPerKind ==
    Exported
    => \A kind \in RecordKinds :
         \A k \in 1..Len(Records(kind)) : Records(kind)[k].id = k

(***************************************************************************)
(* C18: the records are written in the fixed order GRID, MAT1, PSOLID,     *)
(* CTETRA, CTRIA3, all after BEGIN BULK and before ENDDATA: at every       *)
(* moment of the export no line of the file precedes a line of an earlier  *)
(* kind, and a step of a call of the export only adds lines at the end of  *)
(* the file (a second call writes the file anew).                          *)
(***************************************************************************)
KindOrder == <<"BEGIN BULK", "GRID", "MAT1", "PSOLID", "CTETRA", "CTRIA3", "ENDDATA">>
Ordered == SelectSeq(nas, LAMBDA c : \E r \in 1..Len(KindOrder) : KindOrder[r] = c.kind)
KindRank(c) == CHOOSE r \in 1..Len(KindOrder) : KindOrder[r] = c.kind

C18_InKindOrder ==
    LET ranks == [i \in 1..Len(Ordered) |-> KindRank(Ordered[i])]
    IN \A i \in 1..Len(ranks) : \A j \in i..Len(ranks) : ranks[i] <= ranks[j]

C18_Bracketed ==
    Exported => /\ Len(Records("BEGIN BULK")) = 1
                /\ Len(Records("ENDDATA")) = 1
                /\ nas[Len(nas)].kind = "ENDDATA"

C18_FixedRecordOrder ==
    /\ [](C18_InKindOrder /\ C18_Bracketed)
    /\ [][first' = first => IsPrefix(nas, nas')]_vars

C18_Witness ==
    /\ Exported
    /\ \A kind \in RecordKinds : Records(kind) # <<>>

(***************************************************************************)
(* C19: with include_surfaces, the file has exactly one CTRIA3 record for  *)
(* each face of location code e, carrying the three reconstructed vertex   *)
(* indices of the face, each plus one, and none for any other face;        *)
(* without include_surfaces it has no CTRIA3 record.                       *)
(***************************************************************************)
\* the decoded faces whose place in the Locations block holds the code e
ExteriorFaces ==
    SelectSeq([i \in 1..Len(faces_as_vertices) |-> i],
              LAMBDA i : /\ "Locations" \notin file.omit
                         /\ i <= Len(file.locs)
                         /\ file.locs[i] = "e")

C19_Ctria3PerExteriorFace ==
    Exported
    => LET recs == Records("CTRIA3")
       IN IF include_surfaces
          THEN /\ Len(recs) = Len(ExteriorFaces)
               /\ \A k \in 1..Len(recs) :
                    /\ Len(recs[k].nodes) = 3
                    /\ recs[k].nodes =
                         [j \in 1..3 |-> faces_as_vertices[ExteriorFaces[k]][j] + 1]
          ELSE recs = <<>>

(***************************************************************************)
(* C20: a Region block without a material assignment is rejected: after    *)
(* parse_regions has returned, the region records have no entry of its     *)
(* name, whatever the order of the lines of the block and whatever follows *)
(* the block; every Region block with a material assignment has an entry   *)
(* under its name, with that material.                                     *)
(***************************************************************************)
RegionsParsed ==
    /\ pc \in {"parse_coord_system", "compute_statistics", "parsed", "validated"}
    /\ \A k \in 1..Len(parse_errors) : parse_errors[k] # "Failed to parse Regions"

Stored(name) == {k \in 1..Len(regions) : regions[k].name = name}

C20_MaterialMarksRegion ==
    RegionsParsed
    => \A i \in 1..Len(file.regions) :
         LET r == file.regions[i]
         IN IF r.material = ""
            THEN Stored(r.name) = {}
            ELSE \E k \in Stored(r.name) : regions[k].material = r.material

\* a block without material between two with a material written after the
\* Elements list, and a block after the last Region block
C20_Witness ==
    /\ RegionsParsed
    /\ Len(file.regions) = 3
    /\ file.regions[1].material # "" /\ file.regions[1].after
    /\ file.regions[2].material = ""
    /\ file.regions[3].material = ""
    /\ file.tail = "Elements"
    /\ Len(regions) = 1

(***************************************************************************)
(* C21: parsing and reconstructing the same file twice with one parser     *)
(* gives the same vertices, edges, faces, elements, boundary faces and     *)
(* regions and the same reconstructed face and element tuples as the first *)
(* time: what a call builds depends on the text of the file alone, not on  *)
(* what the parser holds from the call before.                             *)
(***************************************************************************)
SecondCallEnded == first # <<>> /\ pc \in {"exported", "raised"}

Resolves(refs, table) == \A i \in 1..Len(refs) : RefIndex(refs[i]) < Len(table)

OrientedPair(r) ==
    LET e == edges[RefIndex(r) + 1] IN IF r >= 0 THEN e ELSE <<e[2], e[1]>>

\* the positions of s that hold a value no earlier position holds
FirstSeenAt(s) == {p \in 1..Len(s) : \A q \in 1..(p - 1) : s[q] # s[p]}

\* the first n distinct values of s, or all of them if they are fewer
FirstDistinct(s, n) ==
    LET at == FirstSeenAt(s)
        m  == IF Cardinality(at) < n THEN Cardinality(at) ELSE n
    IN [k \in 1..m |-> s[CHOOSE p \in at : Cardinality({q \in at : q <= p}) = k]]

C22_FaceIsFirstThreeDistinct ==
    FacesReconstructed
    => \A i \in 1..Len(faces_as_edges) :
         LET fe == faces_as_edges[i]
         IN Resolves(fe, edges)
            => faces_as_vertices[i] =
                 FirstDistinct(OrientedPair(fe[1]) \o OrientedPair(fe[2])
                               \o OrientedPair(fe[3]), 3)

\* the last face has a reversed reference and three vertices
C22_Witness ==
    /\ FacesReconstructed
    /\ file.faces # <<>>
    /\ LET fe == faces_as_edges[Len(faces_as_edges)]
       IN /\ Len(faces_as_edges) = Len(BaseFaces) + 1
          /\ Resolves(fe, edges)
          /\ \E i \in 1..3 : fe[i] < 0
          /\ Len(faces_as_vertices[Len(faces_as_vertices)]) = 3

(***************************************************************************)
(* C23: for every element whose four face references resolve to existing   *)
(* faces, also when the faces have fewer or more than four vertices         *)
(* between them, the reconstructed element is a tuple of exactly four       *)
(* vertex indices in ascending order, and the tuple is the same when the    *)
(* four references are taken in reverse order or any one of them is         *)
(* negated.                                                                 *)
(***************************************************************************)
Ascending(t) == \A j \in 1..(Len(t) - 1) : t[j] <= t[j + 1]

C23_ElementIsFourAscending ==
    ElementsReconstructed
    => \A i \in 1..Len(elements_as_faces) :
         LET ef == elements_as_faces[i]
             again(refs) == reconstruct_elements(<<refs>>, faces_as_vertices).out[1]
         IN Resolves(ef, faces_as_vertices)
            => /\ Len(elements_as_vertices[i]) = 4
               /\ Ascending(elements_as_vertices[i])
               /\ again(<<ef[4], ef[3], ef[2], ef[1]>>) = elements_as_vertices[i]
               /\ \A j \in 1..4 : again(Negated(ef, j)) = elements_as_vertices[i]

(***************************************************************************)
(* C24: every degraded reconstruction is flagged: when the edges of a face *)
(* do not resolve to exactly three distinct vertices, or the faces of an   *)
(* element do not have exactly four distinct vertices between them, the    *)
(* warnings list of the parser has a warning of the reconstruction for it. *)
(***************************************************************************)
DegradedFace(i) ==
    LET fe == faces_as_edges[i]
    IN \/ ~Resolves(fe, edges)
       \/ Cardinality(SetOf(OrientedPair(fe[1]) \o OrientedPair(fe[2])
                            \o OrientedPair(fe[3]))) # 3

DegradedElement(i) ==
    LET ef == elements_as_faces[i]
    IN \/ ~Resolves(ef, faces_as_vertices)
       \/ Cardinality(UNION {SetOf(faces_as_vertices[RefIndex(ef[j]) + 1]) :
                               j \in 1..4}) # 4

Flagged(msg) ==
    Cardinality({k \in 1..Len(parse_warnings) : parse_warnings[k] = msg})

C24_DegradedIsFlagged ==
    ElementsReconstructed
    => /\ Flagged("Error reconstructing face")
            >= Cardinality({i \in 1..Len(faces_as_edges) : DegradedFace(i)})
       /\ Flagged("Error reconstructing element")
            >= Cardinality({i \in 1..Len(elements_as_faces) : DegradedElement(i)})

(***************************************************************************)
(* C25: the element-to-region mapping built from the element lists of the  *)
(* regions (each region of the file under a name of its own) is            *)
(* last-write-wins: an element index that at least one region lists is     *)
(* mapped to the region whose list stands last in the file among those     *)
(* that list it, and an element index no region lists has no mapping.      *)
(***************************************************************************)
MappingsBuilt ==
    \/ pc \in {"export_boundary", "exported"}
    \/ \E k \in 1..Len(WriteStages) : pc = WriteStages[k]

ListedElements == UNION {SetOf(file.regions[i].elems) : i \in 1..Len(file.regions)}

LastListing(e) == CHOOSE i \in ListedBy(e) : \A j \in ListedBy(e) : j <= i

C25_LastRegionWins ==
    MappingsBuilt
    => /\ DOMAIN mappings.element_to_region = ListedElements
       /\ \A e \in ListedElements :
            mappings.element_to_region[e] = file.regions[LastListing(e)].name

\* an element listed by both regions, and an element listed by none
C25_Witness ==
    /\ MappingsBuilt
    /\ \E e \in ListedElements : Cardinality(ListedBy(e)) = 2
    /\ \E e \in 0..(Len(elements_as_vertices) - 1) : e \notin ListedElements

(***************************************************************************)
(* C26: in the surface output of the reader a face is an exterior cell     *)
(* only if its location code is e and exactly one element refers to it     *)
(* (with either sign), and an interface cell only if its location code is  *)
(* f and exactly two elements refer to it; a face of location i, or with   *)
(* no location code, is in no cell.  The codes and the element lines are   *)
(* those of the file the reader's parser has read.                         *)
(***************************************************************************)
ParsedText == Text(files[reader.parser[1].filepath])

LocationOf(idx) ==
    LET locations == parse_locations_full(ParsedText).out
    IN IF idx < Len(locations) THEN locations[idx + 1] ELSE "none"

Referencing(idx) ==
    LET eaf == parse_elements_full(ParsedText).out
    IN {e \in 1..Len(eaf) : \E j \in 1..4 : actual_idx(eaf[e][j]) = idx}

C26_SurfacesFollowAdjacency ==
    reader.cached_output # <<>>
    => \A k \in 1..Len(output.cells) :
         LET c == output.cells[k]
         IN /\ c.kind = "Surface-Exterior"
               => (LocationOf(c.of) = "e" /\ Cardinality(Referencing(c.of)) = 1)
            /\ c.kind = "Surface-Interface"
               => (LocationOf(c.of) = "f" /\ Cardinality(Referencing(c.of)) = 2)

(***************************************************************************)
(* C27: the exported file is referentially closed: the property id of      *)
(* every CTETRA record is the id of a PSOLID record of the same file, and  *)
(* the material id of that PSOLID record is the id of a MAT1 record of the *)
(* file.                                                                   *)
(***************************************************************************)
C27_ReferencesResolve ==
    Exported
    => \A c \in SetOf(Records("CTETRA")) :
         \E p \in SetOf(Records("PSOLID")) :
            /\ p.id = c.ref
            /\ \E m \in SetOf(Records("MAT1")) : m.id = p.ref

(***************************************************************************)
(* C28: the parse status agrees with the recorded diagnostics: it is       *)
(* SUCCESS exactly when both lists are empty, WARNING exactly when there   *)
(* is a warning and no error, ERROR exactly when there is an error.  The   *)
(* status never moves back from ERROR to WARNING or SUCCESS, nor from      *)
(* WARNING to SUCCESS, and the two lists only grow.                        *)
(***************************************************************************)
StatusRank(s) == CASE s = SUCCESS -> 0 [] s = WARNING -> 1 [] s = ERROR -> 2

C28_Agrees ==
    /\ parse_status = SUCCESS <=> (parse_warnings = <<>> /\ parse_errors = <<>>)
    /\ parse_status = WARNING <=> (parse_warnings # <<>> /\ parse_errors = <<>>)
    /\ parse_status = ERROR <=> parse_errors # <<>>

C28_Grows ==
    /\ StatusRank(parse_status') >= StatusRank(parse_status)
    /\ IsPrefix(parse_warnings, parse_warnings')
    /\ IsPrefix(parse_errors, parse_errors')

C28_StatusFollowsDiagnostics == [](C28_Agrees) /\ [][C28_Grows]_vars

\* parse_info_block has recorded the negative count, an error, and after it
\* the dimension, a warning
C28_Witness ==
    /\ parse_status = ERROR
    /\ parse_errors = <<"Negative vertex count">>
    /\ parse_warnings = <<"negative value", "Unusual dimension">>

(***************************************************************************)
(* C29: whenever parse_all ends by raising (the file is missing, empty or  *)
(* unreadable, it has no Info block, or its Info block is invalid), the    *)
(* status that get_parse_summary reports is "error" and at least one error *)
(* is recorded.  These are the raises of parse_info_block, with no section *)
(* parser called yet.                                                      *)
(***************************************************************************)
C29_RaiseLeavesError ==
    (result.raised # "" /\ result.calls = <<>>)
    => (parse_status = ERROR /\ parse_errors # <<>>)

(***************************************************************************)
(* C30: the reader serves no stale data: when the file name was set to     *)
(* another file after a grid was served, the grid served next is the one   *)
(* built from the vertices, the elements and the regions of the file now   *)
(* named, which is the grid a reader made anew serves for that file.       *)
(***************************************************************************)
FreshOutput(filename, mesh_type) ==
    LET r == parse_geometry([NewReader EXCEPT !.filename = filename,
                                              !.mesh_type = mesh_type], files)
    IN IF r.raised THEN EmptyGrid ELSE vtk_output(r.rd, files)

C30_NeverStale ==
    (reader.cached_output # <<>> /\ reader.filename \in DOMAIN files)
    => output = FreshOutput(reader.filename, reader.mesh_type)
====
